---------------------------- MODULE Spec2Model ----------------------------
(***************************************************************************)
(* Code Review Assistant: the ingestion pipeline of backend/app/api.py,    *)
(* the LLM response handling of backend/app/llm_analyzer.py and the        *)
(* review table of backend/app/database.py.                                *)
(*                                                                         *)
(* Texts (file names, file contents) are sequences of one-character        *)
(* strings.  An LLM response is a sequence of JSON tokens.  A Python       *)
(* value that came out of json.loads, and every dict the code builds, is   *)
(* a tagged record [k |-> kind, v |-> payload].                            *)
(***************************************************************************)
EXTENDS Integers, Sequences, FiniteSets, TLC

VARIABLES
    store,        \* rows of table code_reviews (database.py:14-26)
    seq,          \* sqlite_sequence value of code_reviews, 0 when it has no row
    uploads,      \* names of the files present in UPLOAD_FOLDER (api.py:19)
    last,         \* the request handled last and the response it got
    batch,        \* position of batch_review in its loop over the files
    now,          \* the second SQLite's clock shows (CURRENT_TIMESTAMP)
    issuedMax,    \* history: largest identity save_review ever returned
    issuedSince,  \* history: largest identity returned since the table was last cleared
    fn_in,        \* argument handed to a pure function under check
    fn_out,       \* what the function returned
    fn_pc,        \* which function is to run next on fn_in / fn_out
    disk,         \* content of the files in UPLOAD_FOLDER, by name, while requests overlap
    reqs          \* the ingestion requests that run at the same time, each with its locals

vars ==
    <<store, seq, uploads, last, batch, now, issuedMax, issuedSince, fn_in, fn_out, fn_pc,
      disk, reqs>>

storeVars == <<store, seq, uploads, last, batch, now, issuedMax, issuedSince>>
fnVars == <<fn_in, fn_out, fn_pc>>
ccVars == <<disk, reqs>>

(***************************************************************************)
(* Bounds of the model.                                                    *)
(***************************************************************************)
MaxContentLen == 4   \* characters of a text handed to calculate_code_metrics
MaxTextLen == 3      \* tokens of an arbitrary LLM response
MaxMembers == 2      \* members of a generated JSON object payload
MaxList == 2         \* elements of a generated JSON array
MaxId == 2           \* identities handed out before the table is cleared
MaxClock == 1        \* seconds the clock of SQLite advances
MaxFiles == 3        \* files of one batch request

(***************************************************************************)
(* Sequences and characters.                                               *)
(***************************************************************************)
RECURSIVE SeqsUpTo(_, _)
SeqsUpTo(S, n) ==
    IF n = 0 THEN {<<>>}
    ELSE LET shorter == SeqsUpTo(S, n - 1)
         IN  shorter \cup {Append(s, x) : s \in {t \in shorter : Len(t) = n - 1}, x \in S}

Max(a, b) == IF a >= b THEN a ELSE b

SetMax(S) == IF S = {} THEN 0 ELSE CHOOSE x \in S : \A y \in S : y <= x

RECURSIVE Join(_)
\* the Python str made of the characters of s
Join(s) == IF s = <<>> THEN "" ELSE Head(s) \o Join(Tail(s))

\* str.lower() on one character
LowerChar(c) ==
    CASE c = "C" -> "c"
      [] c = "H" -> "h"
      [] c = "P" -> "p"
      [] c = "Y" -> "y"
      [] c = "X" -> "x"
      [] OTHER -> c

Lower(s) == [i \in 1..Len(s) |-> LowerChar(s[i])]

\* index of the last "." of s, 0 when there is none
LastDot(s) == SetMax({i \in 1..Len(s) : s[i] = "."})

\* filename.rsplit('.', 1)[1] of a name that holds a "."
RsplitExt(s) == SubSeq(s, LastDot(s) + 1, Len(s))

(***************************************************************************)
(* api.py: configuration and the file-name helpers.                        *)
(***************************************************************************)
ALLOWED_EXTENSIONS ==
    {"py", "js", "java", "cpp", "c", "h", "hpp", "html", "css", "tsx", "jsx",
     "go", "rs", "php", "rb", "swift", "kt", "cs", "scala"}

\* a mutant: a name without an extension passes
allowed_file_no_dot_check(filename) ==
    Join(Lower(RsplitExt(filename))) \in ALLOWED_EXTENSIONS

allowed_file(filename) ==
    /\ LastDot(filename) > 0
    /\ Join(Lower(RsplitExt(filename))) \in ALLOWED_EXTENSIONS

ext_to_lang(ext) ==
    CASE ext = "py" -> "Python"
      [] ext = "js" -> "JavaScript"
      [] ext = "jsx" -> "React"
      [] ext = "ts" -> "TypeScript"
      [] ext = "tsx" -> "React TypeScript"
      [] ext = "java" -> "Java"
      [] ext = "cpp" -> "C++"
      [] ext = "c" -> "C"
      [] ext = "h" -> "C Header"
      [] ext = "hpp" -> "C++ Header"
      [] ext = "go" -> "Go"
      [] ext = "rs" -> "Rust"
      [] ext = "php" -> "PHP"
      [] ext = "rb" -> "Ruby"
      [] ext = "swift" -> "Swift"
      [] ext = "kt" -> "Kotlin"
      [] ext = "cs" -> "C#"
      [] ext = "scala" -> "Scala"
      [] ext = "html" -> "HTML"
      [] ext = "css" -> "CSS"
      [] OTHER -> "Unknown"

detect_language(filename) ==
    ext_to_lang(IF LastDot(filename) > 0 THEN Join(Lower(RsplitExt(filename))) ELSE "")

\* characters secure_filename keeps: ASCII letters, digits, "_", ".", "-"
SafeChars == {"a", "b", "c", "h", "p", "y", "x", "C", "H", "P", "Y", "X", ".", "_", "-"}

RECURSIVE StripLead(_)
StripLead(s) ==
    IF s # <<>> /\ Head(s) \in {".", "_"} THEN StripLead(Tail(s)) ELSE s

RECURSIVE StripTrail(_)
StripTrail(s) ==
    IF s # <<>> /\ s[Len(s)] \in {".", "_"} THEN StripTrail(SubSeq(s, 1, Len(s) - 1)) ELSE s

\* werkzeug's secure_filename as called at api.py:110 and api.py:182: characters
\* outside [A-Za-z0-9_.-] are dropped, then leading and trailing "." and "_"
secure_filename(name) ==
    StripTrail(StripLead(SelectSeq(name, LAMBDA c : c \in SafeChars)))

(***************************************************************************)
(* api.py: calculate_code_metrics.                                         *)
(***************************************************************************)
Whitespace == {" ", "\n", "\r", "\t"}

RECURSIVE Split(_, _)
\* str.split(sep): the pieces between the separators, one more than separators
Split(s, sep) ==
    IF \A i \in 1..Len(s) : s[i] # sep THEN <<s>>
    ELSE LET i == CHOOSE j \in 1..Len(s) : s[j] = sep /\ \A k \in 1..(j - 1) : s[k] # sep
         IN  <<SubSeq(s, 1, i - 1)>> \o Split(SubSeq(s, i + 1, Len(s)), sep)

RECURSIVE LStrip(_)
LStrip(s) == IF s # <<>> /\ Head(s) \in Whitespace THEN LStrip(Tail(s)) ELSE s

RECURSIVE RStrip(_)
RStrip(s) ==
    IF s # <<>> /\ s[Len(s)] \in Whitespace THEN RStrip(SubSeq(s, 1, Len(s) - 1)) ELSE s

\* str.strip()
Strip(s) == RStrip(LStrip(s))

StartsWithHash(s) == s # <<>> /\ Head(s) = "#"

\* round(num / den, 0) of Python 3: to nearest, a tie to the even neighbour
RoundHalfEven(num, den) ==
    LET q == num \div den
        r == num % den
    IN  IF 2 * r < den THEN q
        ELSE IF 2 * r > den THEN q + 1
        ELSE IF q % 2 = 0 THEN q ELSE q + 1

\* the filters of the three list comprehensions (api.py:57-59)
\* a mutant: a line counts as a comment when the raw line, not the stripped
\* one, starts with "#", while the code filter still strips
IsCommentLine_unstripped(line) == StartsWithHash(line)

IsCodeLine(line) == Strip(line) # <<>> /\ ~StartsWithHash(Strip(line))
IsBlankLine(line) == Strip(line) = <<>>
IsCommentLine(line) == StartsWithHash(Strip(line))

\* round((comment_lines / code_lines * 100) if code_lines > 0 else 0, 2), in
\* hundredths: 5000 stands for 50.0
CommentRatio(comment, code) ==
    IF code > 0 THEN RoundHalfEven(comment * 10000, code) ELSE 0

\* code_content.split('\n') (api.py:55)
SplitLines(code_content) == Split(code_content, "\n")

calculate_code_metrics(code_content) ==
    LET lines == SplitLines(code_content)
        idx == 1..Len(lines)
        code_lines == Cardinality({i \in idx : IsCodeLine(lines[i])})
        blank_lines == Cardinality({i \in idx : IsBlankLine(lines[i])})
        comment_lines == Cardinality({i \in idx : IsCommentLine(lines[i])})
    IN  [total_lines |-> Len(lines),
         code_lines |-> code_lines,
         blank_lines |-> blank_lines,
         comment_lines |-> comment_lines,
         comment_ratio |-> CommentRatio(comment_lines, code_lines)]

(***************************************************************************)
(* Python values: what json.loads returns and the dicts the code builds.   *)
(* A float is kept in hundredths.                                          *)
(***************************************************************************)
Num(n) == [k |-> "num", v |-> n]
Flt(h) == [k |-> "flt", v |-> h]
Str(s) == [k |-> "str", v |-> s]
Null == [k |-> "null", v |-> 0]
Arr(items) == [k |-> "arr", v |-> items]
Obj(f) == [k |-> "obj", v |-> f]

EmptyDict == [x \in {} |-> Null]

\* d[key] = val on a dict
DictSet(d, key, val) ==
    Obj([x \in (DOMAIN d.v) \cup {key} |-> IF x = key THEN val ELSE d.v[x]])

\* d.get(key, default) on a dict
DictGet(d, key, default) == IF key \in DOMAIN d.v THEN d.v[key] ELSE default

(***************************************************************************)
(* JSON text as a sequence of tokens, json.loads and json.dumps.           *)
(***************************************************************************)
Tok(t, v) == [t |-> t, v |-> v]

LBrace == Tok("{", "")
RBrace == Tok("}", "")
LBrack == Tok("[", "")
RBrack == Tok("]", "")
Comma == Tok(",", "")
Colon == Tok(":", "")

ParseFail == [ok |-> FALSE, val |-> Null, next |-> 0]

RECURSIVE ParseValue(_, _)
RECURSIVE ParseElems(_, _, _)
RECURSIVE ParseMembers(_, _, _)

\* one JSON value starting at token i
ParseValue(toks, i) ==
    IF i > Len(toks) THEN ParseFail
    ELSE LET t == toks[i]
         IN  CASE t.t = "num" -> [ok |-> TRUE, val |-> Num(t.v), next |-> i + 1]
               [] t.t = "flt" -> [ok |-> TRUE, val |-> Flt(t.v), next |-> i + 1]
               [] t.t = "str" -> [ok |-> TRUE, val |-> Str(t.v), next |-> i + 1]
               [] t.t = "null" -> [ok |-> TRUE, val |-> Null, next |-> i + 1]
               [] t.t = "[" ->
                    IF i + 1 <= Len(toks) /\ toks[i + 1].t = "]"
                    THEN [ok |-> TRUE, val |-> Arr(<<>>), next |-> i + 2]
                    ELSE ParseElems(toks, i + 1, <<>>)
               [] t.t = "{" ->
                    IF i + 1 <= Len(toks) /\ toks[i + 1].t = "}"
                    THEN [ok |-> TRUE, val |-> Obj(EmptyDict), next |-> i + 2]
                    ELSE ParseMembers(toks, i + 1, Obj(EmptyDict))
               [] OTHER -> ParseFail

\* the elements of an array after its "[" or after a ","
ParseElems(toks, i, acc) ==
    LET r == ParseValue(toks, i)
    IN  IF ~r.ok \/ r.next > Len(toks) THEN ParseFail
        ELSE IF toks[r.next].t = "," THEN ParseElems(toks, r.next + 1, Append(acc, r.val))
        ELSE IF toks[r.next].t = "]"
             THEN [ok |-> TRUE, val |-> Arr(Append(acc, r.val)), next |-> r.next + 1]
        ELSE ParseFail

\* the members of an object after its "{" or after a ","; a repeated key
\* keeps its last value
ParseMembers(toks, i, acc) ==
    IF i + 1 > Len(toks) \/ toks[i].t # "str" \/ toks[i + 1].t # ":" THEN ParseFail
    ELSE LET r == ParseValue(toks, i + 2)
         IN  IF ~r.ok \/ r.next > Len(toks) THEN ParseFail
             ELSE IF toks[r.next].t = ","
                  THEN ParseMembers(toks, r.next + 1, DictSet(acc, toks[i].v, r.val))
             ELSE IF toks[r.next].t = "}"
                  THEN [ok |-> TRUE, val |-> DictSet(acc, toks[i].v, r.val), next |-> r.next + 1]
             ELSE ParseFail

\* json.loads(text): [ok |-> FALSE] stands for JSONDecodeError
json_loads(toks) ==
    LET r == ParseValue(toks, 1)
    IN  IF r.ok /\ r.next = Len(toks) + 1 THEN [ok |-> TRUE, val |-> r.val]
        ELSE [ok |-> FALSE, val |-> Null]

RECURSIVE SetToSeq(_)
SetToSeq(S) ==
    IF S = {} THEN <<>>
    ELSE LET x == CHOOSE y \in S : TRUE IN <<x>> \o SetToSeq(S \ {x})

RECURSIVE json_dumps(_)
RECURSIVE DumpElems(_)
RECURSIVE DumpMembers(_, _)

DumpElems(items) ==
    IF items = <<>> THEN <<>>
    ELSE json_dumps(Head(items))
         \o (IF Len(items) > 1 THEN <<Comma>> ELSE <<>>) \o DumpElems(Tail(items))

DumpMembers(f, keys) ==
    IF keys = <<>> THEN <<>>
    ELSE <<Tok("str", Head(keys)), Colon>> \o json_dumps(f[Head(keys)])
         \o (IF Len(keys) > 1 THEN <<Comma>> ELSE <<>>) \o DumpMembers(f, Tail(keys))

\* a mutant: a float is written as the int it truncates to
json_dumps_int_floats(val) ==
    CASE val.k = "num" -> <<Tok("num", val.v)>>
      [] val.k = "flt" -> <<Tok("num", val.v \div 100)>>
      [] val.k = "str" -> <<Tok("str", val.v)>>
      [] val.k = "null" -> <<Tok("null", "")>>
      [] val.k = "arr" -> <<LBrack>> \o DumpElems(val.v) \o <<RBrack>>
      [] val.k = "obj" -> <<LBrace>> \o DumpMembers(val.v, SetToSeq(DOMAIN val.v)) \o <<RBrace>>

\* json.dumps(value)
json_dumps(val) ==
    CASE val.k = "num" -> <<Tok("num", val.v)>>
      [] val.k = "flt" -> <<Tok("flt", val.v)>>
      [] val.k = "str" -> <<Tok("str", val.v)>>
      [] val.k = "null" -> <<Tok("null", "")>>
      [] val.k = "arr" -> <<LBrack>> \o DumpElems(val.v) \o <<RBrack>>
      [] val.k = "obj" -> <<LBrace>> \o DumpMembers(val.v, SetToSeq(DOMAIN val.v)) \o <<RBrace>>

(***************************************************************************)
(* llm_analyzer.py: CodeAnalyzer.                                          *)
(***************************************************************************)
\* what self.client.chat.completions.create does: it raises, or it returns
\* a response whose message content is toks
LLMRaises == [kind |-> "raise", toks |-> <<>>]
LLMText(toks) == [kind |-> "text", toks |-> toks]

\* the dict of the except branch (llm_analyzer.py:83-95); the summary's
\* f-string is kept without the exception's text
FallbackAnalysis ==
    Obj([overall_quality_score |-> Num(0),
         summary |-> Str("Error during analysis"),
         errors |-> Arr(<<>>),
         warnings |-> Arr(<<>>),
         suggestions |-> Arr(<<>>),
         strengths |-> Arr(<<>>),
         readability_score |-> Num(0),
         modularity_score |-> Num(0),
         best_practices_score |-> Num(0),
         security_concerns |-> Arr(<<>>),
         performance_notes |-> Arr(<<>>)])

FirstOpen(toks) ==
    IF \E i \in 1..Len(toks) : toks[i].t = "{"
    THEN CHOOSE i \in 1..Len(toks) : toks[i].t = "{" /\ \A j \in 1..(i - 1) : toks[j].t # "{"
    ELSE 0

LastClose(toks) == SetMax({i \in 1..Len(toks) : toks[i].t = "}"})

\* re.search(r'\{[\s\S]*\}', result): the span from the first "{" to the
\* last "}", when the last "}" comes after the first "{"
BraceSpan(toks) ==
    IF FirstOpen(toks) > 0 /\ LastClose(toks) > FirstOpen(toks)
    THEN [found |-> TRUE, span |-> SubSeq(toks, FirstOpen(toks), LastClose(toks))]
    ELSE [found |-> FALSE, span |-> <<>>]

Raised(exc) == [ok |-> FALSE, exc |-> exc, val |-> Null]
Returned(val) == [ok |-> TRUE, exc |-> "", val |-> val]

\* the try block of analyze_code (llm_analyzer.py:59-79): the parsed
\* payload, or the exception raised by the client or by json.loads
AnalyzeTry(llm) ==
    IF llm.kind = "raise" THEN Raised("APIError")
    ELSE LET m == BraceSpan(llm.toks)
             parsed == IF m.found THEN json_loads(m.span) ELSE json_loads(llm.toks)
         IN  IF parsed.ok THEN Returned(parsed.val) ELSE Raised("JSONDecodeError")

\* a mutant: the except clause catches only the parse error, so a failure
\* of the client leaves the method as an exception
analyze_code_narrow_except(llm) ==
    LET r == AnalyzeTry(llm)
    IN  IF r.ok \/ r.exc # "JSONDecodeError" THEN r ELSE Returned(FallbackAnalysis)

\* a mutant: no except clause at all
analyze_code_no_except(llm) == AnalyzeTry(llm)

\* analyze_code (llm_analyzer.py:59-95) given what the client does: except
\* Exception turns every failure of the try block into the fallback dict
analyze_code(llm) ==
    LET r == AnalyzeTry(llm)
    IN  IF r.ok THEN r ELSE Returned(FallbackAnalysis)

\* len(x) of Python: defined on list, str and dict, TypeError on the rest
HasLen(x) == x.k \in {"arr", "str", "obj"}
PyLen(x) ==
    CASE x.k = "arr" -> Len(x.v)
      [] x.k = "str" -> Len(x.v)
      [] x.k = "obj" -> Cardinality(DOMAIN x.v)
      [] OTHER -> 0

\* a mutant: the counters are read from the LLM's payload when it has them
ReportMetrics_trusting(analysis) ==
    IF "metrics" \in DOMAIN analysis.v THEN analysis.v["metrics"]
    ELSE Obj([total_errors |-> DictGet(analysis, "total_errors", Num(0)),
              total_warnings |-> DictGet(analysis, "total_warnings", Num(0)),
              total_suggestions |-> DictGet(analysis, "total_suggestions", Num(0))])

\* the "metrics" block (llm_analyzer.py:114-118)
ReportMetrics(analysis) ==
    Obj([total_errors |-> Num(PyLen(DictGet(analysis, "errors", Arr(<<>>)))),
         total_warnings |-> Num(PyLen(DictGet(analysis, "warnings", Arr(<<>>)))),
         total_suggestions |-> Num(PyLen(DictGet(analysis, "suggestions", Arr(<<>>))))])

\* generate_report (llm_analyzer.py:97-121): the report, or the exception
\* it raises: AttributeError when analysis has no .get, TypeError when a
\* list field has no len()
generate_report(analysis, filename) ==
    IF analysis.k # "obj" THEN Raised("AttributeError")
    ELSE IF \E key \in {"errors", "warnings", "suggestions"} :
                ~HasLen(DictGet(analysis, key, Arr(<<>>)))
         THEN Raised("TypeError")
    ELSE Returned(Obj(
        [filename |-> Str(Join(filename)),
         overall_score |-> DictGet(analysis, "overall_quality_score", Num(0)),
         summary |-> DictGet(analysis, "summary", Str("")),
         detailed_scores |-> Obj(
            [readability |-> DictGet(analysis, "readability_score", Num(0)),
             modularity |-> DictGet(analysis, "modularity_score", Num(0)),
             best_practices |-> DictGet(analysis, "best_practices_score", Num(0))]),
         errors |-> DictGet(analysis, "errors", Arr(<<>>)),
         warnings |-> DictGet(analysis, "warnings", Arr(<<>>)),
         suggestions |-> DictGet(analysis, "suggestions", Arr(<<>>)),
         strengths |-> DictGet(analysis, "strengths", Arr(<<>>)),
         security_concerns |-> DictGet(analysis, "security_concerns", Arr(<<>>)),
         performance_notes |-> DictGet(analysis, "performance_notes", Arr(<<>>)),
         metrics |-> ReportMetrics(analysis)]))

(***************************************************************************)
(* database.py: table code_reviews.  A database is [rows, seq]: the rows   *)
(* of the table and the value sqlite_sequence holds for it.  The timestamp *)
(* column is not kept.                                                     *)
(***************************************************************************)
EmptyDb == [rows |-> {}, seq |-> 0, now |-> 0]

RowIds(db) == {r.id : r \in db.rows}

\* a mutant: the rowid of a table declared without AUTOINCREMENT, one more
\* than the largest rowid now in the table
NextId_max_rowid(db) == SetMax(RowIds(db)) + 1

\* id INTEGER PRIMARY KEY AUTOINCREMENT (database.py:15): one more than the
\* largest rowid the table ever held according to sqlite_sequence
NextId(db) == Max(db.seq, SetMax(RowIds(db))) + 1

\* the types sqlite3 binds as a parameter; a list or a dict raises
\* InterfaceError (ProgrammingError from Python 3.11 on)
SqlBindable(val) == val.k \in {"num", "flt", "str", "null"}

\* the strings of the model that SQLite reads as an integer literal, and the
\* integers they are read as
NumericText == {"85"}
TextToInt(s) == CASE s = "85" -> 85

\* code_quality_score INTEGER (database.py:24): what the column holds after
\* a value was bound to it.  Text that is a numeric literal is stored as the
\* number, a float without a fraction as the integer, the rest as bound
IntegerAffinity(val) ==
    CASE val.k = "str" /\ val.v \in NumericText -> Num(TextToInt(val.v))
      [] val.k = "flt" /\ val.v % 100 = 0 -> Num(val.v \div 100)
      [] OTHER -> val

DbRaised(db, exc) == [ok |-> FALSE, exc |-> exc, id |-> 0, db |-> db]

\* a mutant: INSERT OR REPLACE on the file name, the row of an earlier
\* upload of that name is replaced
save_review_replacing(db, filename, file_type, file_size, code_content, review_report, errors_found, warnings_found, suggestions_count, quality_score, dbOk) ==
    IF ~dbOk THEN DbRaised(db, "OperationalError")
    ELSE IF ~SqlBindable(quality_score) THEN DbRaised(db, "InterfaceError")
    ELSE LET review_id == NextId(db)
             row == [id |-> review_id,
                     filename |-> Join(filename),
                     file_type |-> file_type,
                     file_size |-> file_size,
                     code_content |-> code_content,
                     review_report |-> json_dumps(review_report),
                     errors_found |-> errors_found,
                     warnings_found |-> warnings_found,
                     suggestions_count |-> suggestions_count,
                     code_quality_score |-> IntegerAffinity(quality_score),
                     timestamp |-> db.now]
         IN  [ok |-> TRUE, exc |-> "", id |-> review_id,
              db |-> [db EXCEPT !.rows = {r \in db.rows : r.filename # Join(filename)} \cup {row},
                                !.seq = review_id]]

\* save_review (database.py:33-51); dbOk is whether SQLite carries out the
\* INSERT and its commit
save_review(db, filename, file_type, file_size, code_content, review_report, errors_found, warnings_found, suggestions_count, quality_score, dbOk) ==
    IF ~dbOk THEN DbRaised(db, "OperationalError")
    ELSE IF ~SqlBindable(quality_score) THEN DbRaised(db, "InterfaceError")
    ELSE LET review_id == NextId(db)
             row == [id |-> review_id,
                     filename |-> Join(filename),
                     file_type |-> file_type,
                     file_size |-> file_size,
                     code_content |-> code_content,
                     review_report |-> json_dumps(review_report),
                     errors_found |-> errors_found,
                     warnings_found |-> warnings_found,
                     suggestions_count |-> suggestions_count,
                     code_quality_score |-> IntegerAffinity(quality_score),
                     timestamp |-> db.now]
         IN  [ok |-> TRUE, exc |-> "", id |-> review_id,
              db |-> [db EXCEPT !.rows = db.rows \cup {row}, !.seq = review_id]]

\* get_review_by_id (database.py:70-82): the rows with that id, none or one
get_review_by_id(db, review_id) == {r \in db.rows : r.id = review_id}

\* a mutant: the DELETE is run without the SELECT that looks for the row
delete_review_by_id_unchecked(db, review_id) ==
    [result |-> TRUE, db |-> [db EXCEPT !.rows = {r \in db.rows : r.id # review_id}]]

\* delete_review_by_id (database.py:84-100)
delete_review_by_id(db, review_id) ==
    IF \E r \in db.rows : r.id = review_id
    THEN [result |-> TRUE, db |-> [db EXCEPT !.rows = {r \in db.rows : r.id # review_id}]]
    ELSE [result |-> FALSE, db |-> db]

\* a mutant: the rows are deleted and sqlite_sequence is left as it is
delete_all_reviews_keep_sequence(db) == [db EXCEPT !.rows = {}]

\* delete_all_reviews (database.py:102-115): DELETE FROM code_reviews, then
\* DELETE FROM sqlite_sequence WHERE name="code_reviews"
delete_all_reviews(db) == [db EXCEPT !.rows = {}, !.seq = 0]

\* the orders in which the rows of S can be listed
RECURSIVE Orderings(_)
Orderings(S) ==
    IF S = {} THEN {<<>>}
    ELSE UNION {{<<r>> \o o : o \in Orderings(S \ {r})} : r \in S}

\* ORDER BY timestamp DESC: rows of one second can come in any order
NewestFirst(o) == \A i, j \in 1..Len(o) : i < j => o[i].timestamp >= o[j].timestamp

\* the columns the SELECT of get_all_reviews names (database.py:59-60)
ListColumns(r) ==
    [id |-> r.id, filename |-> r.filename, file_type |-> r.file_type,
     file_size |-> r.file_size, errors_found |-> r.errors_found,
     warnings_found |-> r.warnings_found, suggestions_count |-> r.suggestions_count,
     code_quality_score |-> r.code_quality_score, timestamp |-> r.timestamp]

\* get_all_reviews (database.py:53-68): the lists fetchall() can return
get_all_reviews(db) ==
    {[i \in 1..Len(o) |-> ListColumns(o[i])] : o \in {x \in Orderings(db.rows) : NewestFirst(x)}}

\* SUM(column) over the rows
RECURSIVE SqlSum(_, _)
SqlSum(rows, col) ==
    IF rows = {} THEN 0
    ELSE LET r == CHOOSE x \in rows : TRUE IN r[col] + SqlSum(rows \ {r}, col)

\* the value of a code_quality_score in an aggregate, in hundredths: text
\* that is no number counts as 0
SqlNumber(val) ==
    CASE val.k = "num" -> 100 * val.v
      [] val.k = "flt" -> val.v
      [] OTHER -> 0

RECURSIVE SqlSumScores(_)
SqlSumScores(rows) ==
    IF rows = {} THEN 0
    ELSE LET r == CHOOSE x \in rows : TRUE
         IN  SqlNumber(r.code_quality_score) + SqlSumScores(rows \ {r})

\* round(avg, 2) if avg else 0 (database.py:188): the average of num / den
\* where num is in hundredths, as a Python value
RoundedAverage(num, den) ==
    IF den = 0 \/ num = 0 THEN Num(0) ELSE Flt(RoundHalfEven(num, den))

\* MIN(code_quality_score) and MAX(code_quality_score): NULL is left out,
\* a number is less than any text; the texts of the model that are no
\* numbers are all the same text
SqlMinScore(rows) ==
    LET vals == {r.code_quality_score : r \in rows} \ {Null}
        nums == {v \in vals : v.k \in {"num", "flt"}}
    IN  IF vals = {} THEN Null
        ELSE IF nums # {} THEN CHOOSE v \in nums : \A w \in nums : SqlNumber(v) <= SqlNumber(w)
        ELSE CHOOSE v \in vals : TRUE
SqlMaxScore(rows) ==
    LET vals == {r.code_quality_score : r \in rows} \ {Null}
        nums == {v \in vals : v.k \in {"num", "flt"}}
        texts == vals \ nums
    IN  IF vals = {} THEN Null
        ELSE IF texts # {} THEN CHOOSE v \in texts : TRUE
        ELSE CHOOSE v \in nums : \A w \in nums : SqlNumber(v) >= SqlNumber(w)

\* GROUP BY file_type ORDER BY count DESC (database.py:166-171): the lists
\* fetchall() can return
FileTypeCounts(rows) ==
    LET types == {r.file_type : r \in rows}
        groups == {[type |-> t, count |-> Cardinality({r \in rows : r.file_type = t})] : t \in types}
    IN  {o \in Orderings(groups) : \A i, j \in 1..Len(o) : i < j => o[i].count >= o[j].count}

\* a mutant: None is returned when no row has an error
get_statistics_no_errors(db) ==
    IF SqlSum(db.rows, "errors_found") = 0 THEN {Null}
    ELSE {[total_reviews |-> Cardinality(db.rows),
           total_errors |-> SqlSum(db.rows, "errors_found"),
           total_warnings |-> SqlSum(db.rows, "warnings_found"),
           total_suggestions |-> SqlSum(db.rows, "suggestions_count")]}

\* get_statistics (database.py:135-203): None on an empty table, else the
\* dicts it can return.  Every row is younger than 7 days
get_statistics(db) ==
    IF Cardinality(db.rows) = 0 THEN {Null}
    ELSE LET n == Cardinality(db.rows)
             scored == {r \in db.rows : r.code_quality_score # Null}
         IN  {[total_reviews |-> n,
               average_quality |-> RoundedAverage(SqlSumScores(scored), Cardinality(scored)),
               min_quality |-> SqlMinScore(db.rows),
               max_quality |-> SqlMaxScore(db.rows),
               total_errors |-> SqlSum(db.rows, "errors_found"),
               total_warnings |-> SqlSum(db.rows, "warnings_found"),
               total_suggestions |-> SqlSum(db.rows, "suggestions_count"),
               average_errors |-> RoundedAverage(100 * SqlSum(db.rows, "errors_found"), n),
               average_warnings |-> RoundedAverage(100 * SqlSum(db.rows, "warnings_found"), n),
               average_file_size |-> RoundedAverage(100 * SqlSum(db.rows, "file_size"), n),
               recent_activity_7d |-> n,
               file_type_distribution |-> d] : d \in FileTypeCounts(db.rows)}

(***************************************************************************)
(* The uploaded file as the handlers read it.                              *)
(***************************************************************************)
RECURSIVE UniversalNewlines(_)
\* open(file_path, 'r'): "\r\n" and "\r" are read as "\n"
UniversalNewlines(s) ==
    IF s = <<>> THEN <<>>
    ELSE IF Head(s) = "\r"
         THEN <<"\n">> \o UniversalNewlines(
                  IF Len(s) > 1 /\ s[2] = "\n" THEN SubSeq(s, 3, Len(s)) ELSE Tail(s))
    ELSE <<Head(s)>> \o UniversalNewlines(Tail(s))

\* f.read() with encoding='utf-8', errors='ignore' (api.py:115-116): the
\* bytes that are no UTF-8, written "BAD", are dropped
ReadText(raw) == UniversalNewlines(SelectSeq(raw, LAMBDA c : c # "BAD"))

\* os.path.getsize(file_path) (api.py:119): every element of raw is a byte
FileSize(raw) == Len(raw)

\* the metrics dict as a Python value; comment_ratio is round()'s float, or
\* the int 0 when there is no code line
MetricsDict(metrics) ==
    Obj([total_lines |-> Num(metrics.total_lines),
         code_lines |-> Num(metrics.code_lines),
         blank_lines |-> Num(metrics.blank_lines),
         comment_lines |-> Num(metrics.comment_lines),
         comment_ratio |-> IF metrics.code_lines > 0 THEN Flt(metrics.comment_ratio)
                           ELSE Num(0)])

(***************************************************************************)
(* api.py: the bodies of the two ingestion handlers.                       *)
(***************************************************************************)
\* what a try block of an ingestion handler leaves behind
TryRaised(db, ups, exc, llm) ==
    [ok |-> FALSE, exc |-> exc, review_id |-> 0, report |-> Null,
     db |-> db, uploads |-> ups, llm |-> llm]

\* what a try block of an ingestion handler returns when nothing is raised
TryReturned(sv, saved, filename, report, llmKind) ==
    [ok |-> TRUE, exc |-> "", review_id |-> sv.id, report |-> report,
     db |-> sv.db, uploads |-> saved \ {Join(filename)}, llm |-> llmKind]

\* save_review(...) and what follows it in a try block (api.py:136-150 and
\* 200-213): the INSERT, then os.remove of the uploaded file
SaveAndRemove(db, saved, filename, code_content, file_size, report, llmKind, dbOk) ==
    LET sv == save_review(db, filename, Join(Lower(RsplitExt(filename))), file_size,
                  code_content, report,
                  report.v["metrics"].v["total_errors"].v,
                  report.v["metrics"].v["total_warnings"].v,
                  report.v["metrics"].v["total_suggestions"].v,
                  report.v["overall_score"], dbOk)
    IN  IF ~sv.ok THEN TryRaised(db, saved, sv.exc, llmKind)
        ELSE TryReturned(sv, saved, filename, report, llmKind)

\* analyzer.generate_report(analysis, filename) of a try block, given what
\* analyze_code returned
BuildReport(analysis, filename) ==
    IF analysis.ok THEN generate_report(analysis.val, filename) ELSE analysis

\* review_code from metrics = calculate_code_metrics(...) on (api.py:123-150)
ReviewAnalyze(db, saved, filename, code_content, file_size, built, llmKind, dbOk) ==
    IF ~built.ok THEN TryRaised(db, saved, built.exc, llmKind)
    ELSE SaveAndRemove(db, saved, filename, code_content, file_size,
             DictSet(DictSet(built.val, "code_metrics",
                         MetricsDict(calculate_code_metrics(code_content))),
                     "language", Str(detect_language(filename))),
             llmKind, dbOk)

\* the try block of review_code (api.py:109-159).  llm is what the LLM
\* client does when it is called, dbOk whether SQLite carries out the INSERT
ReviewSaved(db, saved, filename, raw, llm, dbOk) ==
    IF LastDot(filename) = 0 THEN TryRaised(db, saved, "IndexError", "none")
    ELSE ReviewAnalyze(db, saved, filename, ReadText(raw), FileSize(raw),
             BuildReport(analyze_code(llm), filename), llm.kind, dbOk)

ReviewNamed(db, ups, filename, raw, llm, dbOk) ==
    ReviewSaved(db, ups \cup {Join(filename)}, filename, raw, llm, dbOk)

ReviewTry(db, ups, name, raw, llm, dbOk) ==
    ReviewNamed(db, ups, secure_filename(name), raw, llm, dbOk)

\* batch_review from analysis = analyzer.analyze_code(...) on (api.py:190-213)
BatchAnalyze(db, saved, filename, code_content, file_size, built, llmKind, dbOk) ==
    IF ~built.ok THEN TryRaised(db, saved, built.exc, llmKind)
    ELSE SaveAndRemove(db, saved, filename, code_content, file_size,
             DictSet(built.val, "language", Str(detect_language(filename))),
             llmKind, dbOk)

\* the try block of batch_review for one file (api.py:181-218)
BatchSaved(db, saved, filename, raw, llm, dbOk) ==
    IF LastDot(filename) = 0 THEN TryRaised(db, saved, "IndexError", "none")
    ELSE BatchAnalyze(db, saved, filename, ReadText(raw), FileSize(raw),
             BuildReport(analyze_code(llm), filename), llm.kind, dbOk)

BatchNamed(db, ups, filename, raw, llm, dbOk) ==
    BatchSaved(db, ups \cup {Join(filename)}, filename, raw, llm, dbOk)

BatchTry(db, ups, name, raw, llm, dbOk) ==
    BatchNamed(db, ups, secure_filename(name), raw, llm, dbOk)

(***************************************************************************)
(* The requests the handlers are given.                                    *)
(***************************************************************************)
Prose == Tok("word", "Sure")

\* every token an LLM response is made of
TokAlphabet ==
    {LBrace, RBrace, LBrack, RBrack, Comma, Colon,
     Tok("num", 7), Tok("str", "errors"), Tok("null", ""), Prose}

\* every response of at most MaxTextLen tokens
ShortTexts == SeqsUpTo(TokAlphabet, MaxTextLen)

Findings(n) == Arr([i \in 1..n |-> Str("finding")])

ListVals == {Findings(n) : n \in 0..MaxList} \cup {Num(7), Null}

\* the members a generated payload is made of: schema keys with values of
\* the asked and of other types, and keys the schema does not ask for
MemberChoices ==
    {<<key, val>> : key \in {"errors", "warnings", "suggestions"}, val \in ListVals}
    \cup {<<"overall_quality_score", Num(85)>>,
          <<"overall_quality_score", Str("high")>>,
          <<"overall_quality_score", Str("85")>>,
          <<"readability_score", Num(85)>>,
          <<"summary", Str("fine")>>,
          <<"metrics", Obj([total_errors |-> Num(7)])>>,
          <<"total_errors", Num(7)>>}

RECURSIVE MemberTokens(_)
MemberTokens(ms) ==
    IF ms = <<>> THEN <<>>
    ELSE <<Tok("str", Head(ms)[1]), Colon>> \o json_dumps(Head(ms)[2])
         \o (IF Len(ms) > 1 THEN <<Comma>> ELSE <<>>) \o MemberTokens(Tail(ms))

ObjectText(ms) == <<LBrace>> \o MemberTokens(ms) \o <<RBrace>>

\* every JSON object of at most MaxMembers members, bare or inside prose
ObjectTexts ==
    LET payloads == {ObjectText(ms) : ms \in SeqsUpTo(MemberChoices, MaxMembers)}
    IN  payloads \cup {<<Prose>> \o t \o <<Prose>> : t \in payloads}

\* the response [{}, {}]: JSON as a whole, while the span from its first
\* "{" to its last "}" is not
TwoObjects == <<LBrack, LBrace, RBrace, Comma, LBrace, RBrace, RBrack>>

LLMResponses ==
    {LLMRaises} \cup {LLMText(t) : t \in ShortTexts \cup ObjectTexts \cup {TwoObjects}}

\* the LLM behaviours the request handlers are run with
SampleLLM ==
    {LLMRaises,
     LLMText(<<Prose>>),
     LLMText(<<Tok("num", 7)>>),
     LLMText(<<Prose>> \o ObjectText(<<<<"errors", Findings(1)>>,
                                       <<"overall_quality_score", Num(85)>>,
                                       <<"metrics", Obj([total_errors |-> Num(7)])>>>>))}

\* the LLM behaviours and the file content batch_review is run with
BatchLLM == {LLMRaises, LLMText(<<Tok("num", 7)>>),
             LLMText(ObjectText(<<<<"overall_quality_score", Num(85)>>>>))}
BatchRaw == <<"a", "\n">>

\* uploaded file names: an allowed one, one without text before its dot,
\* one with an extension that is not allowed, one without a dot, no name
SampleNames ==
    {<<"a", ".", "C">>, <<".", "c">>, <<"a", ".", "x">>, <<"c">>, <<>>}

\* uploaded file contents, as bytes
SampleRaw == {<<>>, <<"#", "\n", "a", "BAD">>}

\* the texts calculate_code_metrics is run on
MetricsTexts == SeqsUpTo({"a", "#", " ", "\n"}, MaxContentLen)

\* a file of two code lines, an empty line and a comment line, each ended
\* by a newline: def hello(): / print("hi") / / # comment
ScenarioText ==
    <<"d", "e", "f", " ", "h", "e", "l", "l", "o", "(", ")", ":", "\n", " ",
      " ", " ", " ", "p", "r", "i", "n", "t", "(", "\"", "h", "i", "\"", ")",
      "\n", "\n", "#", " ", "c", "o", "m", "m", "e", "n", "t", "\n">>

(***************************************************************************)
(* State: responses and the position of batch_review.                      *)
(***************************************************************************)
Response(op, files, llm, status, error, review_id, results, errors) ==
    [op |-> op, files |-> files, llm |-> llm, status |-> status, error |-> error,
     supported |-> IF error = "File type not allowed" /\ op = "review"
                   THEN ALLOWED_EXTENSIONS ELSE {},
     review_id |-> review_id, results |-> results, errors |-> errors,
     total |-> Len(results), failed |-> Len(errors), body |-> <<>>]

\* the response of a handler that reads
Answer(op, status, error, review_id, body) ==
    [Response(op, <<>>, <<>>, status, error, review_id, <<>>, <<>>) EXCEPT !.body = body]

NoResponse == Response("none", <<>>, <<>>, 0, "", 0, <<>>, <<>>)

BatchIdle ==
    [active |-> FALSE, n |-> 0, files |-> <<>>, llm |-> <<>>, results |-> <<>>, errors |-> <<>>]

InitStore ==
    /\ store = {}
    /\ seq = 0
    /\ uploads = {}
    /\ last = NoResponse
    /\ batch = BatchIdle
    /\ now = 0
    /\ issuedMax = 0
    /\ issuedSince = 0
    /\ disk = <<>>
    /\ reqs = <<>>

Db == [rows |-> store, seq |-> seq, now |-> now]

(***************************************************************************)
(* The request handlers of api.py.  One request is handled at a time.      *)
(***************************************************************************)
\* POST /api/review (api.py:93-163)
review_code ==
    /\ ~batch.active
    /\ \E hasFile \in BOOLEAN, name \in SampleNames :
        IF ~hasFile
        THEN /\ last' = Response("review", <<>>, <<>>, 400, "No file provided", 0, <<>>, <<>>)
             /\ UNCHANGED <<store, seq, uploads, issuedMax, issuedSince>>
        ELSE IF name = <<>>
        THEN /\ last' = Response("review", <<name>>, <<"none">>, 400, "No file selected",
                                 0, <<>>, <<>>)
             /\ UNCHANGED <<store, seq, uploads, issuedMax, issuedSince>>
        ELSE IF ~allowed_file(name)
        THEN /\ last' = Response("review", <<name>>, <<"none">>, 400, "File type not allowed",
                                 0, <<>>, <<>>)
             /\ UNCHANGED <<store, seq, uploads, issuedMax, issuedSince>>
        ELSE \E raw \in SampleRaw, llm \in SampleLLM, dbOk \in BOOLEAN :
             \E r \in {ReviewTry(Db, uploads, name, raw, llm, dbOk)} :
                 /\ r.ok => r.review_id <= MaxId
                 /\ store' = r.db.rows
                 /\ seq' = r.db.seq
                 /\ uploads' = r.uploads
                 /\ issuedMax' = Max(issuedMax, r.review_id)
                 /\ issuedSince' = Max(issuedSince, r.review_id)
                 /\ last' = IF r.ok
                            THEN Response("review", <<name>>, <<r.llm>>, 200, "",
                                          r.review_id, <<>>, <<>>)
                            ELSE Response("review", <<name>>, <<r.llm>>, 500, r.exc,
                                          0, <<>>, <<>>)
    /\ UNCHANGED <<batch, now, fnVars, ccVars>>

\* a mutant: the loop has no try/except around a file, and a file that
\* raises leaves no entry
BatchFile_no_except(b, db, ups, name, raw, llm, dbOk) ==
    LET idx == Len(b.files) + 1
        r == BatchTry(db, ups, name, raw, llm, dbOk)
    IN  IF name # <<>> /\ allowed_file(name)
        THEN [b |-> [b EXCEPT !.files = Append(@, name),
                              !.llm = Append(@, r.llm),
                              !.results = IF r.ok
                                  THEN Append(@, [idx |-> idx,
                                                  filename |-> Join(secure_filename(name)),
                                                  review_id |-> r.review_id,
                                                  quality_score |-> r.report.v["overall_score"],
                                                  status |-> "success"])
                                  ELSE @],
              db |-> r.db, uploads |-> r.uploads]
        ELSE [b |-> [b EXCEPT !.files = Append(@, name),
                              !.llm = Append(@, "none"),
                              !.errors = Append(@, [idx |-> idx, filename |-> Join(name),
                                                    error |-> "File type not allowed"])],
              db |-> db, uploads |-> ups]

\* one pass of the loop of batch_review (api.py:179-229) on the next file;
\* idx is the file's place in the request
BatchFile(b, db, ups, name, raw, llm, dbOk) ==
    LET idx == Len(b.files) + 1
        r == BatchTry(db, ups, name, raw, llm, dbOk)
    IN  IF name # <<>> /\ allowed_file(name)
        THEN [b |-> [b EXCEPT !.files = Append(@, name),
                              !.llm = Append(@, r.llm),
                              !.results = IF r.ok
                                  THEN Append(@, [idx |-> idx,
                                                  filename |-> Join(secure_filename(name)),
                                                  review_id |-> r.review_id,
                                                  quality_score |-> r.report.v["overall_score"],
                                                  status |-> "success"])
                                  ELSE @,
                              !.errors = IF r.ok THEN @
                                  ELSE Append(@, [idx |-> idx, filename |-> Join(name),
                                                  error |-> r.exc])],
              db |-> r.db, uploads |-> r.uploads]
        ELSE [b |-> [b EXCEPT !.files = Append(@, name),
                              !.llm = Append(@, "none"),
                              !.errors = Append(@, [idx |-> idx, filename |-> Join(name),
                                                    error |-> "File type not allowed"])],
              db |-> db, uploads |-> ups]

\* POST /api/batch-review (api.py:165-177): the request arrives, with n
\* files or without the 'files' part
batch_review_begin ==
    /\ ~batch.active
    /\ \E hasFiles \in BOOLEAN, n \in 1..MaxFiles :
        IF ~hasFiles
        THEN /\ last' = Response("batch", <<>>, <<>>, 400, "No files provided", 0, <<>>, <<>>)
             /\ batch' = batch
        ELSE /\ last' = Response("batch", <<>>, <<>>, 0, "", 0, <<>>, <<>>)
             /\ batch' = [BatchIdle EXCEPT !.active = TRUE, !.n = n]
    /\ UNCHANGED <<store, seq, uploads, now, issuedMax, issuedSince, fnVars, ccVars>>

\* POST /api/batch-review (api.py:179-239): the loop takes the next file of
\* the request; after the last one the handler answers
batch_review_file ==
    /\ batch.active
    /\ \E name \in SampleNames :
       \E llm \in IF allowed_file(name) THEN BatchLLM ELSE {LLMRaises},
          dbOk \in IF allowed_file(name) THEN BOOLEAN ELSE {TRUE} :
        \E out \in {BatchFile(batch, Db, uploads, name, BatchRaw, llm, dbOk)} :
            /\ store' = out.db.rows
            /\ seq' = out.db.seq
            /\ uploads' = out.uploads
            /\ issuedMax' = Max(issuedMax, out.db.seq)
            /\ issuedSince' = Max(issuedSince, out.db.seq)
            /\ IF Len(out.b.files) = batch.n
               THEN /\ last' = Response("batch", out.b.files, out.b.llm, 200, "", 0,
                                        out.b.results, out.b.errors)
                    /\ batch' = BatchIdle
               ELSE /\ last' = last
                    /\ batch' = out.b
    /\ UNCHANGED <<now, fnVars, ccVars>>

\* DELETE /api/review/<id> (api.py:338-355)
delete_review ==
    /\ ~batch.active
    /\ \E review_id \in 1..(MaxId + 1) :
        LET res == delete_review_by_id(Db, review_id)
        IN  /\ store' = res.db.rows
            /\ seq' = res.db.seq
            /\ last' = IF res.result
                       THEN Response("delete", <<>>, <<>>, 200, "", review_id, <<>>, <<>>)
                       ELSE Response("delete", <<>>, <<>>, 404, "Review not found",
                                     review_id, <<>>, <<>>)
    /\ UNCHANGED <<uploads, batch, now, issuedMax, issuedSince, fnVars, ccVars>>

\* DELETE /api/reviews (api.py:291-305)
clear_all_reviews ==
    /\ ~batch.active
    /\ LET db == delete_all_reviews(Db)
       IN  /\ store' = db.rows
           /\ seq' = db.seq
    /\ issuedSince' = 0
    /\ last' = Response("clear", <<>>, <<>>, 200, "", 0, <<>>, <<>>)
    /\ UNCHANGED <<uploads, batch, now, issuedMax, fnVars, ccVars>>

\* an optional int parameter of a query string: <<>> when it is not sent
Truthy(param) == param # <<>> /\ param[1] # 0

IsScoreNumber(score) == score.k \in {"num", "flt"}

\* review_dict (api.py:255-265)
ReviewDict(row) ==
    [id |-> row.id, filename |-> row.filename, file_type |-> row.file_type,
     file_size |-> row.file_size, errors_found |-> row.errors_found,
     warnings_found |-> row.warnings_found, suggestions_count |-> row.suggestions_count,
     quality_score |-> row.code_quality_score, timestamp |-> row.timestamp]

\* the filters of get_reviews (api.py:267-271) on the quality score of a row
PassesFilters(row, min_score, max_score) ==
    /\ ~(Truthy(min_score) /\ SqlNumber(row.code_quality_score) < 100 * min_score[1])
    /\ ~(Truthy(max_score) /\ SqlNumber(row.code_quality_score) > 100 * max_score[1])

\* the body of get_reviews (api.py:244-286) on what get_all_reviews returned;
\* comparing a score that is no number with an int raises TypeError
ReviewsList(reviews, limit, min_score, max_score) ==
    IF (Truthy(min_score) \/ Truthy(max_score))
       /\ \E i \in 1..Len(reviews) : ~IsScoreNumber(reviews[i].code_quality_score)
    THEN Answer("list", 500, "TypeError", 0, <<>>)
    ELSE LET kept == SelectSeq(reviews, LAMBDA row : PassesFilters(row, min_score, max_score))
             dicts == [i \in 1..Len(kept) |-> ReviewDict(kept[i])]
             cut == IF Truthy(limit) THEN SubSeq(dicts, 1, IF limit[1] < Len(dicts) THEN limit[1] ELSE Len(dicts))
                    ELSE dicts
         IN  Answer("list", 200, "", 0,
                    [limit |-> limit, min_score |-> min_score, max_score |-> max_score,
                     total |-> Len(cut), reviews |-> cut])

\* the values the optional parameters of GET /api/reviews are sent with
LimitChoices == {<<>>, <<1>>}
MinScoreChoices == {<<>>, <<50>>}
MaxScoreChoices == {<<>>, <<0>>, <<50>>}

\* GET /api/reviews (api.py:241-289)
get_reviews ==
    /\ ~batch.active
    /\ \E limit \in LimitChoices, min_score \in MinScoreChoices, max_score \in MaxScoreChoices :
       \E reviews \in get_all_reviews(Db) :
            last' = ReviewsList(reviews, limit, min_score, max_score)
    /\ UNCHANGED <<store, seq, uploads, batch, now, issuedMax, issuedSince, fnVars, ccVars>>

\* review_data (api.py:316-328); json.loads of a stored report that is no
\* JSON raises
ReviewDetail(db, review_id) ==
    IF get_review_by_id(db, review_id) = {} THEN Answer("detail", 404, "Review not found", review_id, <<>>)
    ELSE LET row == CHOOSE r \in get_review_by_id(db, review_id) : TRUE
         IN  IF ~json_loads(row.review_report).ok
             THEN Answer("detail", 500, "JSONDecodeError", review_id, <<>>)
             ELSE Answer("detail", 200, "", review_id,
                         [id |-> row.id, filename |-> row.filename,
                          file_type |-> row.file_type, file_size |-> row.file_size,
                          code_content |-> row.code_content,
                          review_report |-> json_loads(row.review_report).val,
                          errors_found |-> row.errors_found,
                          warnings_found |-> row.warnings_found,
                          suggestions_count |-> row.suggestions_count,
                          quality_score |-> row.code_quality_score,
                          timestamp |-> row.timestamp])

\* GET /api/review/<id> (api.py:307-336)
get_review_detail ==
    /\ ~batch.active
    /\ \E review_id \in 1..(MaxId + 1) : last' = ReviewDetail(Db, review_id)
    /\ UNCHANGED <<store, seq, uploads, batch, now, issuedMax, issuedSince, fnVars, ccVars>>

\* the statistics the endpoint answers with when get_statistics returned
\* None (api.py:368-377)
ZeroStatistics ==
    [total_reviews |-> 0, average_quality |-> 0, total_errors |-> 0,
     total_warnings |-> 0, total_suggestions |-> 0]

\* GET /api/statistics (api.py:361-385)
get_statistics_endpoint ==
    /\ ~batch.active
    /\ \E stats \in get_statistics(Db) :
         last' = Answer("statistics", 200, "", 0,
                        [stats |-> stats,
                         statistics |-> IF stats = Null THEN ZeroStatistics ELSE stats])
    /\ UNCHANGED <<store, seq, uploads, batch, now, issuedMax, issuedSince, fnVars, ccVars>>

\* the characters of a stored file name
FilenameChars(filename) ==
    CHOOSE f \in {secure_filename(n) : n \in SampleNames} : Join(f) = filename

\* needle in hay, for strings
Contains(hay, needle) ==
    \E i \in 0..(Len(hay) - Len(needle)) : SubSeq(hay, i + 1, i + Len(needle)) = needle

\* the loop of search_reviews (api.py:399-406) over what get_all_reviews
\* returned
SearchResults(reviews, query) ==
    LET hits == SelectSeq(reviews,
                    LAMBDA row : Contains(Lower(FilenameChars(row.filename)), Lower(query)))
    IN  [i \in 1..Len(hits) |->
            [id |-> hits[i].id, filename |-> hits[i].filename,
             quality_score |-> hits[i].code_quality_score, timestamp |-> hits[i].timestamp]]

\* the values of the parameter q
SearchQueries == {<<>>, <<"A">>, <<"x">>}

\* GET /api/reviews/search (api.py:387-416)
search_reviews ==
    /\ ~batch.active
    /\ \E query \in SearchQueries :
         IF query = <<>>
         THEN last' = Answer("search", 400, "Search query required", 0, <<>>)
         ELSE \E reviews \in get_all_reviews(Db) :
                last' = Answer("search", 200, "", 0,
                               [query |-> query, results |-> SearchResults(reviews, query),
                                count |-> Len(SearchResults(reviews, query))])
    /\ UNCHANGED <<store, seq, uploads, batch, now, issuedMax, issuedSince, fnVars, ccVars>>

\* review_data of export_review (api.py:426-438), exported_at left out
ExportData(db, review_id) ==
    IF get_review_by_id(db, review_id) = {} THEN Answer("export", 404, "Review not found", review_id, <<>>)
    ELSE LET row == CHOOSE r \in get_review_by_id(db, review_id) : TRUE
         IN  IF ~json_loads(row.review_report).ok
             THEN Answer("export", 500, "JSONDecodeError", review_id, <<>>)
             ELSE Answer("export", 200, "", review_id,
                         [id |-> row.id, filename |-> row.filename,
                          file_type |-> row.file_type, file_size |-> row.file_size,
                          review_report |-> json_loads(row.review_report).val,
                          errors_found |-> row.errors_found,
                          warnings_found |-> row.warnings_found,
                          suggestions_count |-> row.suggestions_count,
                          quality_score |-> row.code_quality_score,
                          timestamp |-> row.timestamp])

\* GET /api/review/<id>/export (api.py:418-457)
export_review ==
    /\ ~batch.active
    /\ \E review_id \in 1..(MaxId + 1) : last' = ExportData(Db, review_id)
    /\ UNCHANGED <<store, seq, uploads, batch, now, issuedMax, issuedSince, fnVars, ccVars>>

\* one side of the comparison (api.py:477-492)
CompareSide(row) ==
    [id |-> row.id, filename |-> row.filename, quality_score |-> row.code_quality_score,
     errors |-> row.errors_found, warnings |-> row.warnings_found,
     suggestions |-> row.suggestions_count]

\* comparison (api.py:476-500) of two rows; the quality scores are
\* subtracted, which raises TypeError when one is no number.  The
\* difference of the scores is in hundredths
Comparison(review1, review2) ==
    IF ~IsScoreNumber(review1.code_quality_score) \/ ~IsScoreNumber(review2.code_quality_score)
    THEN Answer("compare", 500, "TypeError", 0, <<>>)
    ELSE Answer("compare", 200, "", 0,
             [review_1 |-> CompareSide(review1), review_2 |-> CompareSide(review2),
              quality_score_diff |-> SqlNumber(review2.code_quality_score)
                                     - SqlNumber(review1.code_quality_score),
              errors_diff |-> review2.errors_found - review1.errors_found,
              warnings_diff |-> review2.warnings_found - review1.warnings_found,
              suggestions_diff |-> review2.suggestions_count - review1.suggestions_count,
              improvement |-> SqlNumber(review2.code_quality_score)
                              > SqlNumber(review1.code_quality_score)])

\* POST /api/reviews/compare (api.py:459-509); ids is <<>> when the body
\* lacks one of the two keys
compare_reviews ==
    /\ ~batch.active
    /\ \E ids \in {<<>>} \cup ((1..(MaxId + 1)) \X (1..(MaxId + 1))) :
         IF ids = <<>>
         THEN last' = Answer("compare", 400, "Two review IDs required", 0, <<>>)
         ELSE IF get_review_by_id(Db, ids[1]) = {} \/ get_review_by_id(Db, ids[2]) = {}
         THEN last' = Answer("compare", 404, "One or both reviews not found", 0, <<>>)
         ELSE last' = Comparison(CHOOSE r \in get_review_by_id(Db, ids[1]) : TRUE,
                                 CHOOSE r \in get_review_by_id(Db, ids[2]) : TRUE)
    /\ UNCHANGED <<store, seq, uploads, batch, now, issuedMax, issuedSince, fnVars, ccVars>>

\* get_reviews_by_date_range (database.py:117-133) for the range get_trends
\* asks for: every row is of today, so all rows when the range is not empty
get_reviews_by_date_range(db, days) ==
    IF days < 0 THEN {<<>>}
    ELSE {[i \in 1..Len(o) |-> ListColumns(o[i])] : o \in {x \in Orderings(db.rows) : NewestFirst(x)}}

\* the sums get_trends adds up (api.py:526-537); the scores in hundredths
RECURSIVE TrendScore(_)
TrendScore(reviews) ==
    IF reviews = <<>> THEN 0
    ELSE SqlNumber(Head(reviews).code_quality_score) + TrendScore(Tail(reviews))

RECURSIVE TrendErrors(_)
TrendErrors(reviews) ==
    IF reviews = <<>> THEN 0 ELSE Head(reviews).errors_found + TrendErrors(Tail(reviews))

\* trend_data (api.py:524-547): one entry, for today, when there are rows;
\* adding a score that is no number raises TypeError
Trends(reviews, days) ==
    IF \E i \in 1..Len(reviews) : ~IsScoreNumber(reviews[i].code_quality_score)
    THEN Answer("trends", 500, "TypeError", 0, <<>>)
    ELSE Answer("trends", 200, "", 0,
             [days |-> days,
              trends |-> IF reviews = <<>> THEN <<>>
                         ELSE <<[date |-> "today", reviews_count |-> Len(reviews),
                                 average_quality |-> RoundHalfEven(TrendScore(reviews), Len(reviews)),
                                 total_errors |-> TrendErrors(reviews)]>>])

\* the values of the parameter days
TrendDays == {7, -1}

\* GET /api/trends (api.py:511-561)
get_trends ==
    /\ ~batch.active
    /\ \E days \in TrendDays :
       \E reviews \in get_reviews_by_date_range(Db, days) :
            last' = Trends(reviews, days)
    /\ UNCHANGED <<store, seq, uploads, batch, now, issuedMax, issuedSince, fnVars, ccVars>>

\* a second passes (timestamp DATETIME DEFAULT CURRENT_TIMESTAMP,
\* database.py:25, has the resolution of one second)
tick ==
    /\ now < MaxClock
    /\ now' = now + 1
    /\ UNCHANGED <<store, seq, uploads, last, batch, issuedMax, issuedSince, fnVars, ccVars>>

Init ==
    /\ InitStore
    /\ fn_in = <<>>
    /\ fn_out = <<>>
    /\ fn_pc = "idle"

Next ==
    \/ review_code
    \/ delete_review
    \/ clear_all_reviews
    \/ get_reviews
    \/ get_review_detail
    \/ get_statistics_endpoint
    \/ search_reviews
    \/ export_review
    \/ compare_reviews
    \/ get_trends
    \/ tick

Spec == Init /\ [][Next]_vars

\* the server has handled no request yet
FirstRequest == last.op = "none"

NextBatch ==
    \/ FirstRequest /\ batch_review_begin
    \/ batch_review_file
    \/ review_code

\* a batch request as the server's first request, and single-file requests
SpecBatch == Init /\ [][NextBatch]_vars

(***************************************************************************)
(* Two ingestion requests that run at the same time, each in a thread of   *)
(* its own (app.run serves every request in a new thread).  A request goes *)
(* through the try block of review_code (api.py:109-159), which is also    *)
(* the body of the loop of batch_review (api.py:182-213), statement by     *)
(* statement: file.save, open and read, os.path.getsize, the analysis and  *)
(* save_review, os.remove.  SQLite carries out one INSERT at a time.       *)
(***************************************************************************)
Requests == {1, 2}

\* the names the two files are uploaded with: two that secure_filename maps
\* to "a.C", and one it maps to "b.c"
ConcurrentNames == {<<"a", ".", "C">>, <<"!", "a", ".", "C">>, <<"b", ".", "c">>}

\* the bytes of the uploaded files, of different sizes
ConcurrentRaw == {<<"a">>, <<"#", "\n">>}

\* what the LLM does for a request
ConcurrentLLM == {LLMRaises, LLMText(ObjectText(<<<<"overall_quality_score", Num(85)>>>>))}

\* a request that has passed the checks before the try block
Arrived(name, raw, llm) ==
    [pc |-> "save", name |-> name, raw |-> raw, llm |-> llm,
     filename |-> <<>>, code_content |-> <<>>, file_size |-> 0,
     status |-> 0, error |-> "", review_id |-> 0]

\* the except clause (api.py:161-163): the request answers 500
Failed(req, exc) == [req EXCEPT !.pc = "done", !.status = 500, !.error = exc]

InitConcurrent ==
    /\ store = {}
    /\ seq = 0
    /\ uploads = {}
    /\ last = NoResponse
    /\ batch = BatchIdle
    /\ now = 0
    /\ issuedMax = 0
    /\ issuedSince = 0
    /\ fn_in = <<>>
    /\ fn_out = <<>>
    /\ fn_pc = "done"
    /\ disk = <<>>
    /\ reqs \in [Requests -> {Arrived(name, raw, llm) :
                                name \in ConcurrentNames, raw \in ConcurrentRaw,
                                llm \in ConcurrentLLM}]

\* file.save(file_path) (api.py:110-112): the file of that name is created
\* or overwritten with the uploaded bytes
file_save ==
    \E q \in Requests :
        /\ reqs[q].pc = "save"
        /\ \E filename \in {secure_filename(reqs[q].name)} :
             /\ disk' = [n \in DOMAIN disk \cup {Join(filename)} |->
                            IF n = Join(filename) THEN reqs[q].raw ELSE disk[n]]
             /\ reqs' = [reqs EXCEPT ![q].pc = "read", ![q].filename = filename]
        /\ UNCHANGED <<storeVars, fnVars>>

\* open(file_path, 'r') and f.read() (api.py:115-116): the text of what the
\* file of that name holds now; FileNotFoundError when there is none
open_read ==
    \E q \in Requests :
        /\ reqs[q].pc = "read"
        /\ reqs' = IF Join(reqs[q].filename) \in DOMAIN disk
                   THEN [reqs EXCEPT ![q].pc = "getsize",
                                     ![q].code_content = ReadText(disk[Join(reqs[q].filename)])]
                   ELSE [reqs EXCEPT ![q] = Failed(reqs[q], "FileNotFoundError")]
        /\ UNCHANGED <<storeVars, fnVars, disk>>

\* os.path.getsize(file_path) (api.py:119)
getsize ==
    \E q \in Requests :
        /\ reqs[q].pc = "getsize"
        /\ reqs' = IF Join(reqs[q].filename) \in DOMAIN disk
                   THEN [reqs EXCEPT ![q].pc = "analyze",
                                     ![q].file_size = FileSize(disk[Join(reqs[q].filename)])]
                   ELSE [reqs EXCEPT ![q] = Failed(reqs[q], "FileNotFoundError")]
        /\ UNCHANGED <<storeVars, fnVars, disk>>

\* from filename.rsplit to save_review (api.py:120-146): the analysis of the
\* text that was read and the INSERT of it
analyze_and_save ==
    \E q \in Requests :
        /\ reqs[q].pc = "analyze"
        /\ \E r \in {ReviewAnalyze(Db, {}, reqs[q].filename, reqs[q].code_content,
                                    reqs[q].file_size,
                                    BuildReport(analyze_code(reqs[q].llm), reqs[q].filename),
                                    reqs[q].llm.kind, TRUE)} :
             /\ store' = r.db.rows
             /\ seq' = r.db.seq
             /\ issuedMax' = Max(issuedMax, r.review_id)
             /\ issuedSince' = Max(issuedSince, r.review_id)
             /\ reqs' = IF r.ok
                        THEN [reqs EXCEPT ![q].pc = "remove", ![q].review_id = r.review_id]
                        ELSE [reqs EXCEPT ![q] = Failed(reqs[q], r.exc)]
        /\ UNCHANGED <<uploads, last, batch, now, fnVars, disk>>

\* os.remove(file_path) and the 200 response (api.py:149-159);
\* FileNotFoundError when the file is no longer there
os_remove ==
    \E q \in Requests :
        /\ reqs[q].pc = "remove"
        /\ IF Join(reqs[q].filename) \in DOMAIN disk
           THEN /\ disk' = [n \in DOMAIN disk \ {Join(reqs[q].filename)} |-> disk[n]]
                /\ reqs' = [reqs EXCEPT ![q].pc = "done", ![q].status = 200]
           ELSE /\ disk' = disk
                /\ reqs' = [reqs EXCEPT ![q] = Failed(reqs[q], "FileNotFoundError")]
        /\ UNCHANGED <<storeVars, fnVars>>

NextConcurrent == file_save \/ open_read \/ getsize \/ analyze_and_save \/ os_remove

SpecConcurrent == InitConcurrent /\ [][NextConcurrent]_vars

(***************************************************************************)
(* Two calls of delete_review_by_id (database.py:84-100) that run at the   *)
(* same time, each on a connection of its own, on a table that earlier     *)
(* requests filled: the SELECT of a call and its DELETE with the commit    *)
(* are two statements, and statements of the other call can come between.  *)
(***************************************************************************)
DeleteCalls == {1, 2}

\* a call that has not begun
NotCalled == [pc |-> "idle", review_id |-> 0, stored |-> FALSE, result |-> FALSE]

InitDeletes ==
    /\ store = {}
    /\ seq = 0
    /\ uploads = {}
    /\ last = NoResponse
    /\ batch = BatchIdle
    /\ now = 0
    /\ issuedMax = 0
    /\ issuedSince = 0
    /\ fn_in = <<>>
    /\ fn_out = <<>>
    /\ fn_pc = "done"
    /\ disk = <<>>
    /\ reqs = [c \in DeleteCalls |-> NotCalled]

\* an ingestion, before the first of the two calls begins
ingest_before_deletes ==
    /\ \A c \in DeleteCalls : reqs[c].pc = "idle"
    /\ review_code
    /\ UNCHANGED ccVars

\* delete_review_by_id(review_id) is called (database.py:84-87); stored
\* records whether a row of that id is in the table at that moment
delete_called ==
    \E c \in DeleteCalls, review_id \in 1..MaxId :
        /\ reqs[c].pc = "idle"
        /\ reqs' = [reqs EXCEPT ![c] = [pc |-> "select", review_id |-> review_id,
                                        stored |-> review_id \in RowIds(Db),
                                        result |-> FALSE]]
        /\ UNCHANGED <<storeVars, fnVars, disk>>

\* SELECT id ... WHERE id = ? and fetchone() (database.py:90-91); without
\* a row the call returns False (98-100)
delete_select ==
    \E c \in DeleteCalls :
        /\ reqs[c].pc = "select"
        /\ reqs' = IF get_review_by_id(Db, reqs[c].review_id) # {}
                   THEN [reqs EXCEPT ![c].pc = "delete"]
                   ELSE [reqs EXCEPT ![c].pc = "done", ![c].result = FALSE]
        /\ UNCHANGED <<storeVars, fnVars, disk>>

\* DELETE ... WHERE id = ?, commit, return True (database.py:93-97): the
\* rows the DELETE finds are not looked at
delete_commit ==
    \E c \in DeleteCalls :
        /\ reqs[c].pc = "delete"
        /\ store' = {r \in store : r.id # reqs[c].review_id}
        /\ reqs' = [reqs EXCEPT ![c].pc = "done", ![c].result = TRUE]
        /\ UNCHANGED <<seq, uploads, last, batch, now, issuedMax, issuedSince, fnVars, disk>>

NextDeletes == ingest_before_deletes \/ delete_called \/ delete_select \/ delete_commit

SpecDeletes == InitDeletes /\ [][NextDeletes]_vars

(***************************************************************************)
(* calculate_code_metrics, run on every text of MetricsTexts.              *)
(***************************************************************************)
InitMetrics ==
    /\ InitStore
    /\ fn_in \in MetricsTexts \cup {ScenarioText}
    /\ fn_out = <<>>
    /\ fn_pc = "metrics"

CalcMetrics ==
    /\ fn_pc = "metrics"
    /\ fn_out' = calculate_code_metrics(fn_in)
    /\ fn_pc' = "done"
    /\ UNCHANGED <<fn_in, storeVars, ccVars>>

SpecMetrics == InitMetrics /\ [][CalcMetrics]_vars

(***************************************************************************)
(* The analyzer and the two try blocks, run on every response of           *)
(* LLMResponses: analyze_code, then generate_report, then the rest of the  *)
(* try block of review_code and of batch_review on an empty table.         *)
(***************************************************************************)
HarnessName == <<"a", ".", "C">>
HarnessRaw == <<"#", "\n", "a">>

InitAnalyze ==
    /\ InitStore
    /\ fn_in \in LLMResponses
    /\ fn_out = <<>>
    /\ fn_pc = "analyze"

AnalyzeStep ==
    /\ fn_pc = "analyze"
    /\ fn_out' = <<analyze_code(fn_in)>>
    /\ fn_pc' = "report"
    /\ UNCHANGED <<fn_in, storeVars, ccVars>>

ReportStep ==
    /\ fn_pc = "report"
    /\ fn_out' = Append(fn_out, BuildReport(fn_out[1], secure_filename(HarnessName)))
    /\ fn_pc' = "persist"
    /\ UNCHANGED <<fn_in, storeVars, ccVars>>

PersistStep ==
    /\ fn_pc = "persist"
    /\ fn_out' = fn_out \o <<ReviewTry(EmptyDb, {}, HarnessName, HarnessRaw, fn_in, TRUE),
                              BatchTry(EmptyDb, {}, HarnessName, HarnessRaw, fn_in, TRUE)>>
    /\ fn_pc' = "detail"
    /\ UNCHANGED <<fn_in, storeVars, ccVars>>

\* get_review_detail for the identity a try block returned, on the table
\* it left
DetailOf(try) ==
    IF try.ok THEN ReviewDetail(try.db, try.review_id) ELSE NoResponse

DetailStep ==
    /\ fn_pc = "detail"
    /\ fn_out' = fn_out \o <<DetailOf(fn_out[3]), DetailOf(fn_out[4])>>
    /\ fn_pc' = "done"
    /\ UNCHANGED <<fn_in, storeVars, ccVars>>

NextAnalyze == AnalyzeStep \/ ReportStep \/ PersistStep \/ DetailStep

SpecAnalyze == InitAnalyze /\ [][NextAnalyze]_vars

(***************************************************************************)
(* Properties of the request handlers.                                     *)
(***************************************************************************)
\* the exceptions save_review raises
DbErrors == {"OperationalError", "InterfaceError"}

\* the step is a request of the kind op: it answered, or changed the table
Acted(op) == last'.op = op /\ <<last, store, seq>>' # <<last, store, seq>>

\* the keys of an analysis that hold lists
ListKeys ==
    {"errors", "warnings", "suggestions", "strengths", "security_concerns",
     "performance_notes"}

\* the keys of an analysis that hold scores
ScoreKeys ==
    {"overall_quality_score", "readability_score", "modularity_score",
     "best_practices_score"}

\* a review with every score 0 and every list empty
IsZeroReview(analysis) ==
    /\ analysis.k = "obj"
    /\ \A key \in ScoreKeys : key \in DOMAIN analysis.v /\ analysis.v[key] = Num(0)
    /\ \A key \in ListKeys : key \in DOMAIN analysis.v /\ analysis.v[key] = Arr(<<>>)

\* the report a row holds, read back from its review_report column
StoredReport(row) == json_loads(row.review_report).val

\* C1: when the LLM client raises while review_code ingests a file with an
\* allowed extension and SQLite carries out the INSERT, analyze_code returns
\* the fallback review (every score 0, every list empty) and the request
\* still answers 200: exactly one row is added, with quality score 0 and the
\* three counts 0, and the response carries that row's id.
C1_LLMFailureStillIngests ==
    [][(Acted("review") /\ last'.llm = <<"raise">> /\ last'.error \notin DbErrors)
        => /\ analyze_code(LLMRaises).ok
           /\ IsZeroReview(analyze_code(LLMRaises).val)
           /\ last'.status = 200
           /\ \E r \in store' :
                /\ r \notin store
                /\ store' = store \cup {r}
                /\ r.id = last'.review_id
                /\ r.id \notin RowIds(Db)
                /\ r.code_quality_score = Num(0)
                /\ r.errors_found = 0
                /\ r.warnings_found = 0
                /\ r.suggestions_count = 0
                /\ StoredReport(r).v["overall_score"] = Num(0)
                /\ \A key \in ListKeys : StoredReport(r).v[key] = Arr(<<>>)]_vars

\* C1 witness: a request whose LLM call raised was answered 200 with the id
\* of a stored row of score 0, next to a row stored before it
C1_Witness ==
    /\ last.op = "review"
    /\ last.llm = <<"raise">>
    /\ last.status = 200
    /\ Cardinality(store) = 2
    /\ \E r \in store : r.id = last.review_id /\ r.code_quality_score = Num(0)

\* a name the allow-list turns away: no extension, or a lower-cased
\* extension outside ALLOWED_EXTENSIONS
Rejected(name) ==
    /\ name # <<>>
    /\ \/ \A i \in 1..Len(name) : name[i] # "."
       \/ Join(Lower(RsplitExt(name))) \notin ALLOWED_EXTENSIONS

\* the entries batch_review holds: of the request in progress, or as answered
BatchSoFar == IF batch.active THEN batch ELSE last

\* C6: a named file without an extension or with an extension outside the
\* allow-list is turned away before any processing: the LLM is not called
\* and the table, its sequence and the upload folder stay as they were;
\* review_code answers 400 with the allowed extensions, batch_review adds an
\* error entry for the file and no success entry.
C6_RejectedBeforeProcessing ==
    [][/\ (last'.op = "review" /\ last'.files # <<>> /\ Rejected(last'.files[1]))
            => /\ last'.status = 400
               /\ last'.error = "File type not allowed"
               /\ last'.supported = ALLOWED_EXTENSIONS
               /\ last'.llm = <<"none">>
               /\ <<store, seq, uploads>>' = <<store, seq, uploads>>
       /\ (batch.active /\ Rejected(BatchSoFar'.files[Len(BatchSoFar'.files)]))
            => /\ BatchSoFar'.llm[Len(BatchSoFar'.llm)] = "none"
               /\ BatchSoFar'.results = batch.results
               /\ BatchSoFar'.errors =
                    Append(batch.errors,
                           [idx |-> Len(batch.files) + 1,
                            filename |-> Join(BatchSoFar'.files[Len(BatchSoFar'.files)]),
                            error |-> "File type not allowed"])
               /\ <<store, seq, uploads>>' = <<store, seq, uploads>>]_vars

\* C6 witness: review_code turned a name without an extension away while
\* the table held rows
C6_Witness ==
    /\ last.op = "review"
    /\ last.files = <<<<"c">>>>
    /\ last.status = 400
    /\ last.supported = ALLOWED_EXTENSIONS
    /\ store # {}

\* the number of entries of a list that are about file i of the request
EntriesFor(entries, i) == Cardinality({j \in 1..Len(entries) : entries[j].idx = i})

\* C4: a batch request with files is answered 200 with exactly one entry per
\* file, a success entry or an error entry that names the file, so that
\* len(results) + len(errors) is the number of files; every success entry
\* carries the id of exactly one stored row, and no two the same.
C4_BatchOneEntryPerFile ==
    (last.op = "batch" /\ last.files # <<>>) =>
        /\ last.status = 200
        /\ Len(last.results) + Len(last.errors) = Len(last.files)
        /\ last.total = Len(last.results) /\ last.failed = Len(last.errors)
        /\ \A i \in 1..Len(last.files) :
             EntriesFor(last.results, i) + EntriesFor(last.errors, i) = 1
        /\ \A j \in 1..Len(last.errors) :
             last.errors[j].filename = Join(last.files[last.errors[j].idx])
        /\ \A j \in 1..Len(last.results) :
             /\ last.results[j].filename = Join(secure_filename(last.files[last.results[j].idx]))
             /\ Cardinality({r \in store : r.id = last.results[j].review_id}) = 1
             /\ \A r \in store : r.id = last.results[j].review_id =>
                    r.filename = last.results[j].filename
        /\ Cardinality({last.results[j].review_id : j \in 1..Len(last.results)})
             = Len(last.results)
        /\ Cardinality(store) = Len(last.results)

\* C4 witness: three files, the second with an extension that is not
\* allowed: two success entries and one error entry, about file 2
C4_Witness ==
    /\ last.op = "batch"
    /\ Len(last.files) = 3
    /\ last.files[2] = <<"a", ".", "x">>
    /\ Len(last.results) = 2
    /\ Len(last.errors) = 1
    /\ last.errors[1].idx = 2
    /\ last.errors[1].filename = "a.x"
    /\ Cardinality(store) = 2

\* C7, as claimed: every newly assigned id is greater than every id an
\* earlier insert was assigned, whatever deletes came in between
C7_IdsNeverReused ==
    [][\A r \in store' \ store : r.id > issuedMax]_vars

\* C7, amended: every newly assigned id is greater than every id assigned
\* since the table was last cleared by delete_all_reviews (or since it was
\* created), whatever delete_review_by_id removed in between
C7_IdsIncreaseSinceClear ==
    [][\A r \in store' \ store : r.id > issuedSince /\ r.id \notin RowIds(Db)]_vars

\* C7 witness: after delete_all_reviews id 1 is assigned a second time, when
\* a greater id had been assigned before
C7_Witness ==
    /\ last.op = "review"
    /\ last.status = 200
    /\ last.review_id = 1
    /\ issuedMax > 1

(***************************************************************************)
(* Properties of the analyzer, of the report and of the metrics.           *)
(***************************************************************************)
\* json.loads succeeds neither on the span from the first "{" to the last
\* "}" of the response nor on the response as a whole, or there is no
\* response because the client raised
NoParseSucceeds(llm) ==
    \/ llm.kind = "raise"
    \/ /\ ~json_loads(llm.toks).ok
       /\ ~(BraceSpan(llm.toks).found /\ json_loads(BraceSpan(llm.toks).span).ok)

\* C2: generate_report returns a report, without raising, for every value
\* analyze_code returns, whatever the response of the LLM was
C2_ReportNeverFails ==
    fn_pc \in {"persist", "done"} => fn_out[2].ok

\* C3: analyze_code raises for no response of the LLM (the empty one, prose
\* without JSON, JSON with keys nobody asked for): it returns a value, and
\* the zero-score fallback whenever no parse succeeds
C3_AnalyzeNeverRaises ==
    fn_pc \in {"report", "persist", "done"} =>
        /\ fn_out[1].ok
        /\ NoParseSucceeds(fn_in) =>
             (fn_out[1].val = FallbackAnalysis /\ IsZeroReview(fn_out[1].val))

\* C3 witness: analyze_code has returned the fallback for the empty
\* response
C3_Witness ==
    /\ fn_pc = "report"
    /\ fn_in = LLMText(<<>>)
    /\ fn_out[1].ok
    /\ fn_out[1].val = FallbackAnalysis

\* the three counters of a report are the lengths of its three lists
CountersAreLengths(report) ==
    /\ report.v["metrics"].v["total_errors"] = Num(PyLen(report.v["errors"]))
    /\ report.v["metrics"].v["total_warnings"] = Num(PyLen(report.v["warnings"]))
    /\ report.v["metrics"].v["total_suggestions"] = Num(PyLen(report.v["suggestions"]))

\* == of Python on two values: numbers are compared by value, an int with a
\* float too, the rest by kind and content
IsNumber(x) == x.k \in {"num", "flt"}
Hundredths(x) == IF x.k = "num" THEN 100 * x.v ELSE x.v
PyEq(x, y) ==
    IF IsNumber(x) /\ IsNumber(y) THEN Hundredths(x) = Hundredths(y)
    ELSE x.k = y.k /\ x.v = y.v

\* the counts of a row are the counters and the list lengths of the report
\* it holds
RowCountsAgree(row) ==
    /\ CountersAreLengths(StoredReport(row))
    /\ row.errors_found = PyLen(StoredReport(row).v["errors"])
    /\ row.warnings_found = PyLen(StoredReport(row).v["warnings"])
    /\ row.suggestions_count = PyLen(StoredReport(row).v["suggestions"])
    /\ Num(row.errors_found) = StoredReport(row).v["metrics"].v["total_errors"]
    /\ Num(row.warnings_found) = StoredReport(row).v["metrics"].v["total_warnings"]
    /\ Num(row.suggestions_count) = StoredReport(row).v["metrics"].v["total_suggestions"]

\* a string that reads as a number
IsNumericString(x) == x.k = "str" /\ x.v \in NumericText

\* C8, as claimed: in every report generate_report returns and in every row
\* review_code or batch_review stores, the counters are the lengths of the
\* report's lists, whatever counts or metrics the LLM sent, and the row's
\* quality score equals the report's overall_score
C8_CountersEqualListLengths ==
    /\ (fn_pc \in {"persist", "done"} /\ fn_out[2].ok) => CountersAreLengths(fn_out[2].val)
    /\ fn_pc = "done" =>
         \A k \in {3, 4} : fn_out[k].ok =>
            /\ CountersAreLengths(fn_out[k].report)
            /\ fn_out[k].db.rows # {}
            /\ \A row \in fn_out[k].db.rows :
                 /\ RowCountsAgree(row)
                 /\ PyEq(row.code_quality_score, StoredReport(row).v["overall_score"])

\* C8, amended: the counters are the lengths of the report's lists in every
\* report and in every stored row, and the row's quality score equals the
\* report's overall_score unless that is a string that reads as a number,
\* which the row holds as that number
C8_CountersAndStoredScore ==
    /\ (fn_pc \in {"persist", "done"} /\ fn_out[2].ok) => CountersAreLengths(fn_out[2].val)
    /\ fn_pc = "done" =>
         \A k \in {3, 4} : fn_out[k].ok =>
            /\ CountersAreLengths(fn_out[k].report)
            /\ fn_out[k].db.rows # {}
            /\ \A row \in fn_out[k].db.rows :
                 /\ RowCountsAgree(row)
                 /\ IF IsNumericString(StoredReport(row).v["overall_score"])
                    THEN row.code_quality_score
                           = Num(TextToInt(StoredReport(row).v["overall_score"].v))
                    ELSE PyEq(row.code_quality_score, StoredReport(row).v["overall_score"])

\* C8 witness: a response with one error and the score "85" was stored with
\* the counts 1, 0 and 0 and the score 85
C8_Witness ==
    /\ fn_pc = "done"
    /\ fn_in = LLMText(ObjectText(<<<<"errors", Findings(1)>>,
                                     <<"overall_quality_score", Str("85")>>>>))
    /\ fn_out[3].ok
    /\ \E row \in fn_out[3].db.rows :
         /\ row.errors_found = 1 /\ row.warnings_found = 0 /\ row.suggestions_count = 0
         /\ row.code_quality_score = Num(85)
         /\ StoredReport(row).v["overall_score"] = Str("85")

\* C5: the report batch_review stores for a file has the code_metrics block
\* and the language label, and is the report review_code stores for the
\* same file and the same response of the LLM
C5_BatchSameAsSingle ==
    (fn_pc = "done" /\ fn_out[4].ok) =>
        /\ fn_out[3].ok
        /\ {"code_metrics", "language"} \subseteq DOMAIN fn_out[4].report.v
        /\ fn_out[4].report = fn_out[3].report
        /\ {row.review_report : row \in fn_out[4].db.rows}
             = {row.review_report : row \in fn_out[3].db.rows}

\* C9: calculate_code_metrics returns counts that are not negative, every
\* line of the text is in exactly one of the three buckets, and total_lines
\* is the sum of the three counts
C9_MetricsPartition ==
    fn_pc = "done" =>
        /\ fn_out.code_lines >= 0
        /\ fn_out.blank_lines >= 0
        /\ fn_out.comment_lines >= 0
        /\ fn_out.total_lines = fn_out.code_lines + fn_out.blank_lines + fn_out.comment_lines
        /\ \A i \in 1..Len(SplitLines(fn_in)) :
             Cardinality({b \in {"code", "blank", "comment"} :
                 \/ b = "code" /\ IsCodeLine(SplitLines(fn_in)[i])
                 \/ b = "blank" /\ IsBlankLine(SplitLines(fn_in)[i])
                 \/ b = "comment" /\ IsCommentLine(SplitLines(fn_in)[i])}) = 1

\* C9 witness: a text with a code line, a comment line and a blank line
C9_Witness ==
    /\ fn_pc = "done"
    /\ fn_out.code_lines = 1
    /\ fn_out.comment_lines = 1
    /\ fn_out.blank_lines = 1
    /\ fn_out.total_lines = 3

\* C10: on the empty text calculate_code_metrics returns 0 for every count
\* and for comment_ratio
C10_EmptyTextAllZero ==
    (fn_pc = "done" /\ fn_in = <<>>) =>
        /\ fn_out.total_lines = 0
        /\ fn_out.code_lines = 0
        /\ fn_out.blank_lines = 0
        /\ fn_out.comment_lines = 0
        /\ fn_out.comment_ratio = 0

\* the text without its last character
Front(text) == SubSeq(text, 1, Len(text) - 1)

\* C11: on the text of four newline-terminated lines, two of code, one
\* empty and one starting with "#", calculate_code_metrics returns
\* total_lines 4, blank_lines 1, comment_lines 1, code_lines 2 and
\* comment_ratio 50.0; and for every text the newline that ends it adds no
\* line to total_lines or to blank_lines
C11_TrailingNewlineAddsNoLine ==
    fn_pc = "done" =>
        /\ fn_in = ScenarioText =>
              /\ fn_out.total_lines = 4
              /\ fn_out.blank_lines = 1
              /\ fn_out.comment_lines = 1
              /\ fn_out.code_lines = 2
              /\ fn_out.comment_ratio = 5000
        /\ (fn_in # <<>> /\ fn_in[Len(fn_in)] = "\n") =>
              /\ fn_out.total_lines = calculate_code_metrics(Front(fn_in)).total_lines
              /\ fn_out.blank_lines = calculate_code_metrics(Front(fn_in)).blank_lines

\* the JSON object a response holds, bare or inside prose
PayloadOf(llm) == json_loads(BraceSpan(llm.toks).span)

HoldsObject(llm) ==
    /\ llm.kind = "text"
    /\ BraceSpan(llm.toks).found
    /\ PayloadOf(llm).ok
    /\ PayloadOf(llm).val.k = "obj"

\* the keys the prompt asks the LLM for
SchemaKeys == ScoreKeys \cup ListKeys \cup {"summary"}

\* what a report holds for a key of the schema
ReportField(report, key) ==
    CASE key = "overall_quality_score" -> report.v["overall_score"]
      [] key = "readability_score" -> report.v["detailed_scores"].v["readability"]
      [] key = "modularity_score" -> report.v["detailed_scores"].v["modularity"]
      [] key = "best_practices_score" -> report.v["detailed_scores"].v["best_practices"]
      [] OTHER -> report.v[key]

\* what the claim says a report holds for a key the payload does not have
SchemaDefault(key) ==
    IF key \in ScoreKeys THEN Num(0)
    ELSE IF key \in ListKeys THEN Arr(<<>>)
    ELSE Str("")

\* C12: for a JSON object that lacks any of the schema keys the parse does
\* not fail and generate_report returns a report that has 0 for each missing
\* score, "" for a missing summary, an empty list for each missing list and,
\* for every key the object has, the object's value
C12_KeysDefaultIndependently ==
    (fn_pc \in {"persist", "done"} /\ HoldsObject(fn_in)) =>
        /\ fn_out[1].ok
        /\ fn_out[1].val = PayloadOf(fn_in).val
        /\ fn_out[2].ok
        /\ \A key \in SchemaKeys :
             ReportField(fn_out[2].val, key)
               = IF key \in DOMAIN PayloadOf(fn_in).val.v
                 THEN PayloadOf(fn_in).val.v[key]
                 ELSE SchemaDefault(key)

\* the same for the objects generate_report returns a report for: the
\* missing keys have their defaults and the present keys their values
C12_DefaultsWhenReportReturned ==
    (fn_pc \in {"persist", "done"} /\ HoldsObject(fn_in) /\ fn_out[2].ok) =>
        /\ fn_out[1].val = PayloadOf(fn_in).val
        /\ \A key \in SchemaKeys :
             ReportField(fn_out[2].val, key)
               = IF key \in DOMAIN PayloadOf(fn_in).val.v
                 THEN PayloadOf(fn_in).val.v[key]
                 ELSE SchemaDefault(key)

(***************************************************************************)
(* Properties of the table: deletion, the id sequence, immutability.       *)
(***************************************************************************)
\* C13: delete_review on an id that no row has answers 404 and leaves every
\* row as it was; on the id of a row it answers 200, removes that row and
\* leaves all other rows as they were
C13_DeleteByIdFrame ==
    [][Acted("delete") =>
        IF \E r \in store : r.id = last'.review_id
        THEN /\ last'.status = 200
             /\ store' \subseteq store
             /\ Cardinality(store \ store') = 1
             /\ \A r \in store \ store' : r.id = last'.review_id
        ELSE /\ last'.status = 404
             /\ last'.error = "Review not found"
             /\ store' = store]_vars

\* C13 witness: the row with id 1 was deleted and the row with id 2 is
\* still there
C13_Witness ==
    /\ last.op = "delete"
    /\ last.status = 200
    /\ last.review_id = 1
    /\ RowIds(Db) = {2}

\* C14: delete_all_reviews removes every row and resets the id sequence:
\* after it the table is empty, and the first insert after it gets id 1,
\* the id the first insert into a new table gets, whatever was inserted
\* and deleted before
C14_DeleteAllResets ==
    [][/\ last'.op = "clear" =>
            (last'.status = 200 /\ store' = {} /\ seq' = 0)
       /\ (issuedSince = 0 /\ store' \ store # {}) =>
            (\A r \in store' \ store : r.id = 1 /\ r.id = NextId(EmptyDb))]_vars

\* C14 witness: ids up to MaxId had been assigned and rows deleted one by
\* one; after delete_all_reviews the next insert got id 1
C14_Witness ==
    /\ last.op = "review"
    /\ last.status = 200
    /\ last.review_id = 1
    /\ issuedMax = MaxId
    /\ issuedSince = 1
    /\ RowIds(Db) = {1}


\* the answer to an unfiltered GET /api/reviews
ListedAll ==
    /\ last.op = "list"
    /\ last.status = 200
    /\ last.body.limit = <<>>
    /\ last.body.min_score = <<>>
    /\ last.body.max_score = <<>>

\* C16: list_all returns every stored record, and a record inserted after
\* another one (the one with the greater id) comes before it, also when both
\* were inserted within one second
C16_ListNewestFirst ==
    ListedAll =>
        /\ {last.body.reviews[i].id : i \in 1..Len(last.body.reviews)} = RowIds(Db)
        /\ Len(last.body.reviews) = Cardinality(store)
        /\ \A i, j \in 1..Len(last.body.reviews) :
               i < j => last.body.reviews[i].id > last.body.reviews[j].id


\* the sum of a counter over the stored records, by identity
RECURSIVE CounterTotal(_, _)
CounterTotal(n, col) ==
    IF n = 0 THEN 0
    ELSE (IF n \in RowIds(Db) THEN (CHOOSE r \in store : r.id = n)[col] ELSE 0)
         + CounterTotal(n - 1, col)

\* C18: get_statistics returns None exactly when no record is stored;
\* otherwise total_reviews is the number of stored records and total_errors,
\* total_warnings and total_suggestions are the sums of the stored counters.
\* On None the endpoint answers with statistics that are all zero
C18_StatisticsOfStore ==
    last.op = "statistics" =>
        /\ last.status = 200
        /\ last.body.stats = Null <=> store = {}
        /\ store # {} =>
             /\ last.body.statistics = last.body.stats
             /\ last.body.statistics.total_reviews = Cardinality(store)
             /\ last.body.statistics.total_errors = CounterTotal(issuedMax, "errors_found")
             /\ last.body.statistics.total_warnings = CounterTotal(issuedMax, "warnings_found")
             /\ last.body.statistics.total_suggestions = CounterTotal(issuedMax, "suggestions_count")
        /\ store = {} =>
             \A key \in DOMAIN last.body.statistics : last.body.statistics[key] = 0

\* statistics of two records of which one has errors
C18_Witness ==
    /\ last.op = "statistics"
    /\ Cardinality(store) = 2
    /\ \E a, b \in store : a.errors_found = 0 /\ b.errors_found > 0
    /\ last.body.statistics.total_errors > 0

\* the endpoint answered for an empty table that has held records
C18_WitnessEmpty ==
    /\ last.op = "statistics"
    /\ store = {}
    /\ issuedMax > 0
    /\ last.body.statistics.total_reviews = 0


\* C17: the report a handler built with generate_report, code_metrics and
\* language, written by save_review and read back by get_review_detail for
\* the returned identity, equals the original report field for field
C17_ReportRoundTrip ==
    fn_pc = "done" /\ Len(fn_out) = 6 =>
        \A t \in {3, 4} :
            fn_out[t].ok =>
                /\ fn_out[t + 2].status = 200
                /\ fn_out[t + 2].body.id = fn_out[t].review_id
                /\ fn_out[t + 2].body.review_report = fn_out[t].report
                /\ DOMAIN fn_out[t + 2].body.review_report.v = DOMAIN fn_out[t].report.v
                /\ \A key \in DOMAIN fn_out[t].report.v :
                       fn_out[t + 2].body.review_report.v[key] = fn_out[t].report.v[key]

\* a report with a float, a string, a nested dict and a list that is not
\* empty went through the table
C17_Witness ==
    /\ fn_pc = "done"
    /\ Len(fn_out) = 6
    /\ fn_out[3].ok
    /\ fn_out[5].status = 200
    /\ fn_out[3].report.v["code_metrics"].v["comment_ratio"].k = "flt"
    /\ fn_out[3].report.v["errors"].k = "arr"
    /\ fn_out[3].report.v["errors"].v # <<>>


\* what the two steps of the extraction give: the parsed span, else the
\* parsed text, else the fallback review
TwoStepExtraction(llm) ==
    IF llm.kind = "raise" THEN FallbackAnalysis
    ELSE IF BraceSpan(llm.toks).found /\ json_loads(BraceSpan(llm.toks).span).ok
         THEN json_loads(BraceSpan(llm.toks).span).val
    ELSE IF json_loads(llm.toks).ok THEN json_loads(llm.toks).val
    ELSE FallbackAnalysis

\* C19: analyze_code parses the span from the first "{" to the last "}";
\* when that fails it parses the whole text, and it returns the fallback
\* review only when both fail
C19_SpanThenWholeText ==
    fn_pc \in {"report", "persist", "detail"} =>
        /\ fn_out[1].ok
        /\ fn_out[1].val = TwoStepExtraction(fn_in)


\* C15: a record is created once per successful ingestion and never changed:
\* a successful insert adds one record with a new identity and leaves the
\* stored records as they are, and a stored record is changed or removed by
\* delete_by_id and delete_all only; the reading requests leave the table
\* as it is
C15_CreatedOnceThenImmutable ==
    [][/\ (Acted("review") /\ last'.status = 200) =>
             /\ Cardinality(store' \ store) = 1
             /\ \A r \in store' \ store : r.id = last'.review_id
       /\ store' \ store # {} =>
             /\ Cardinality(store' \ store) = 1
             /\ \A r \in store' \ store : r.id \notin RowIds(Db)
             /\ store \subseteq store'
             /\ last'.op \in {"review", "batch"}
       /\ store \ store' # {} => last'.op \in {"delete", "clear"}
       /\ last'.op \in {"list", "detail", "statistics", "search", "export", "compare", "trends"}
             => store' = store
       /\ \A a, b \in store' : a.id = b.id => a = b]_vars

\* a second record of the same file name was inserted a second after the
\* first one, which is still stored
C15_Witness ==
    /\ last.op = "review"
    /\ last.status = 200
    /\ \E a, b \in store :
          /\ a.id < b.id
          /\ b.id = last.review_id
          /\ a.filename = b.filename
          /\ a.timestamp < b.timestamp

\* each kind of reading request has answered from a table that holds records
C15_WitnessRead ==
    /\ store # {}
    /\ last.op = "compare"
    /\ last.status = 200


(***************************************************************************)
(* Properties of requests that overlap.                                    *)
(***************************************************************************)
\* the request has answered 200 and the row of its review_id holds the text
\* and the size of the file it uploaded
PersistedOwnFile(q) ==
    /\ reqs[q].status = 200
    /\ \E r \in store :
          /\ r.id = reqs[q].review_id
          /\ r.code_content = ReadText(reqs[q].raw)
          /\ r.file_size = FileSize(reqs[q].raw)

\* C20: of two ingestion requests that run at the same time, also with
\* names that secure_filename maps to one name, each ends without an error
\* and has stored the text and the size of its own file, however their
\* statements interleave
C20_RequestsDoNotInterfere ==
    \A q \in DOMAIN reqs : reqs[q].pc = "done" => PersistedOwnFile(q)

\* the same for two requests whose files get different names
ConcurrentDistinctNames ==
    (\A q \in DOMAIN reqs : reqs[q].pc = "done")
    /\ (\A p, q \in DOMAIN reqs : p # q => secure_filename(reqs[p].name) # secure_filename(reqs[q].name))
        => \A q \in DOMAIN reqs : PersistedOwnFile(q)


(***************************************************************************)
(* Properties of the upload folder.                                        *)
(***************************************************************************)
\* the request went into the try block of review_code: it saved its file
IngestionFinished ==
    /\ last.op = "review"
    /\ last.status \in {200, 500}
    /\ last.files # <<>>

\* C21: once an ingestion has finished, with a 200 or with an exception
\* that the handler answered 500 for, the file it saved under the upload
\* folder is no longer there
C21_UploadRemovedAfterIngestion ==
    IngestionFinished => Join(secure_filename(last.files[1])) \notin uploads


(***************************************************************************)
(* Properties of the list of reviews.                                      *)
(***************************************************************************)
\* C22: GET /api/reviews with max_score = m returns only reviews of a score
\* of at most m, with min_score = m only reviews of a score of at least m,
\* for every int m, 0 too; with limit = n it returns at most n reviews; and
\* total is the number of reviews returned
C22_ListFiltersEveryBound ==
    (last.op = "list" /\ last.status = 200) =>
        /\ last.body.max_score # <<>> =>
              \A i \in 1..Len(last.body.reviews) :
                  SqlNumber(last.body.reviews[i].quality_score) <= 100 * last.body.max_score[1]
        /\ last.body.min_score # <<>> =>
              \A i \in 1..Len(last.body.reviews) :
                  SqlNumber(last.body.reviews[i].quality_score) >= 100 * last.body.min_score[1]
        /\ last.body.limit # <<>> => Len(last.body.reviews) <= last.body.limit[1]
        /\ last.body.total = Len(last.body.reviews)


(***************************************************************************)
(* Properties of deletes that overlap.                                     *)
(***************************************************************************)
\* both calls were made for one id while a row of that id was stored, and
\* both have returned
BothDeletedSameRow ==
    /\ \A c \in DOMAIN reqs : reqs[c].pc = "done" /\ reqs[c].stored
    /\ \A c, d \in DOMAIN reqs : reqs[c].review_id = reqs[d].review_id

\* C23: of two calls of delete_review_by_id for the same stored id that run
\* at the same time exactly one returns True and the other one False,
\* however their SELECTs and DELETEs interleave
C23_ExactlyOneDeleteSucceeds ==
    BothDeletedSameRow => Cardinality({c \in DOMAIN reqs : reqs[c].result}) = 1

\* the same when the second call begins after the first one has returned
DeletesInSequence ==
    (/\ \A c \in DOMAIN reqs : reqs[c].pc = "done"
     /\ \A c, d \in DOMAIN reqs : reqs[c].review_id = reqs[d].review_id
     /\ \E c \in DOMAIN reqs : reqs[c].stored
     /\ \E c \in DOMAIN reqs : ~reqs[c].stored)
        => Cardinality({c \in DOMAIN reqs : reqs[c].result}) = 1

=============================================================================
